---- MODULE Spec2Model ----
(***************************************************************************)
(* Pharmacy shift bot (kikuchi-mizuki/shift).                              *)
(*                                                                         *)
(* The model follows app/api/line_webhook.py (the router mounted by        *)
(* main_combined.py and integrated_main.py), the in-memory request         *)
(* registry shared/services/request_manager.py, the session store          *)
(* app/services/user_management_service.py, both free-text parsers         *)
(* (app/utils/text_parser.py and shared/utils/text_parser.py) and the text *)
(* path of the separate store bot store_bot/api/webhook.py.                *)
(*                                                                         *)
(* One action per handler.  The webhook endpoint is an `async def` that    *)
(* calls the synchronous SDK dispatcher (line_webhook.py lines 66-80), so  *)
(* inside one process a handler runs to completion before the next event   *)
(* is looked at: every handler is one atomic step.                         *)
(***************************************************************************)
EXTENDS Integers, Sequences, FiniteSets, TLC

VARIABLES
    user_type,        \* UserManagementService.user_type_mapping / UserSession.user_type
    store_sheet,      \* user ids found in the directory sheet "店舗登録"
    temp_data,        \* UserSession.temp_data, per user (the draft of the main bot)
    store_temp_data,  \* store_bot/api/webhook.py store_temp_data (draft of the store bot)
    requests,         \* RequestManager._requests: request_id -> request dict
    now,              \* the server clock, in seconds (request ids are derived from it)
    log,              \* every confirmation and closure message pushed so far
    sheet,            \* the non-blank day cells of the schedule sheet: <<user id, date>>
    pc,               \* the handler that has sent its reply and not yet returned, or Idle
    reminder_count,   \* the redis keys reminder:shift_request:<id> that have not expired
    reminders_sent,   \* per shift request, the reminder rounds sent since it was created
    last              \* the event handled by the last step and the reply it produced

vars == <<user_type, store_sheet, temp_data, store_temp_data, requests, now, log, sheet, pc,
          reminder_count, reminders_sent, last>>

-----------------------------------------------------------------------------
(* Bounds of the model                                                     *)

\* The clock takes the values 0..MaxClock.
MaxClock == 1
\* Head counts written in a free-text message range over 0..MaxTextCount.
MaxTextCount == 5
\* The user taps one of the first MaxPick buttons of a time menu.
MaxPick == 2
\* A shift request sees at most MaxRounds reminder rounds.
MaxRounds == 4
\* A dispatch goes to a list of at most MaxList identities.
MaxList == 3

-----------------------------------------------------------------------------
(* Users and their identities                                              *)

StoreUsers == {"s1"}
Pharmacists == {"p1", "p2"}
Strangers == {"u1"}
Users == StoreUsers \cup Pharmacists \cup Strangers

\* request_id = f"req_{user_id}_{now:%Y%m%d_%H%M%S}"
RequestId(u, t) == <<u, t>>
ReqIds == {RequestId(u, t) : u \in StoreUsers, t \in 0..MaxClock}

-----------------------------------------------------------------------------
(* Dictionaries                                                            *)

EmptyDict == [k \in {} |-> 0]
\* no handler is between its reply and its return
Idle == <<>>
Has(d, k) == k \in DOMAIN d
Put(d, k, v) == [x \in (DOMAIN d) \cup {k} |-> IF x = k THEN v ELSE d[x]]

-----------------------------------------------------------------------------
(* Text messages: a message is a sequence of whitespace-separated tokens.  *)
(* Japanese words are written in romaji: mei = 名, gozen = 午前, gogo = 午後,  *)
(* shujitsu = 終日, furu = フル, yakan = 夜間, ninzu: = 人数:, hai = はい,        *)
(* kakunin = 確認, kakutei = 確定, iie = いいえ.                              *)

Digits == [s \in {"0", "1", "2", "3", "4", "5", "6", "10", "11", "12", "13", "15", "31", "40"} |->
             CASE s = "0" -> 0 [] s = "1" -> 1 [] s = "2" -> 2 [] s = "3" -> 3
               [] s = "4" -> 4 [] s = "5" -> 5 [] s = "6" -> 6 [] s = "10" -> 10
               [] s = "11" -> 11 [] s = "12" -> 12 [] s = "13" -> 13 [] s = "15" -> 15
               [] s = "31" -> 31 [] s = "40" -> 40]
IsNum(tok) == tok \in DOMAIN Digits
\* str(n) for the numbers the model writes
NumTok(n) == CHOOSE s \in DOMAIN Digits : Digits[s] = n

\* datetime.now().date() of the run, as month and day; year 0 is the current year.
Today == [y |-> 0, m |-> 4, d |-> 10]
DaysIn(m) == IF m \in {4, 6, 9, 11} THEN 30 ELSE IF m = 2 THEN 28 ELSE 31
ValidDate(m, d) == m \in 1..12 /\ d \in 1..DaysIn(m)
Before(a, b) == a.y < b.y \/ (a.y = b.y /\ (a.m < b.m \/ (a.m = b.m /\ a.d < b.d)))

NoParse == [ok |-> FALSE]

\* re.search(r'(\d{1,2})/(\d{1,2})', text): the first position of "M / D".
DatePositions(t) == {i \in 1..(Len(t) - 2) : IsNum(t[i]) /\ t[i + 1] = "/" /\ IsNum(t[i + 2])}
Min(S) == CHOOSE x \in S : \A y \in S : x <= y

HasTok(t, S) == \E i \in 1..Len(t) : t[i] \in S

\* re.search(r'(\d+)\s*名', text): the first number directly followed by 名.
CountPositions(t) == {i \in 1..(Len(t) - 1) : IsNum(t[i]) /\ t[i + 1] = "mei"}
\* re.search(r'人数[：:]\s*(\d+)', text)
LabelledCountPositions(t) == {i \in 2..Len(t) : IsNum(t[i]) /\ t[i - 1] = "ninzu:"}

\* app/utils/text_parser.py parse_shift_request
ClampCount(n) == IF n > 3 THEN 3 ELSE n

AppParse(t) ==
    IF DatePositions(t) = {} THEN NoParse
    ELSE LET i == Min(DatePositions(t))
             month == Digits[t[i]]
             day == Digits[t[i + 2]]
         IN  IF ~ValidDate(month, day) THEN NoParse        \* date() raises ValueError
             ELSE LET d0 == [y |-> 0, m |-> month, d |-> day]
                      target == IF Before(d0, Today) THEN [d0 EXCEPT !.y = 1] ELSE d0
                      slot == IF HasTok(t, {"AM", "am", "gozen"}) THEN "AM"
                              ELSE IF HasTok(t, {"PM", "pm", "gogo"}) THEN "PM"
                              ELSE IF HasTok(t, {"shujitsu", "furu"}) THEN "shujitsu"
                              ELSE "None"
                      n == IF CountPositions(t) # {}
                             THEN ClampCount(Digits[t[Min(CountPositions(t))]])
                           ELSE IF LabelledCountPositions(t) # {}
                             THEN ClampCount(Digits[t[Min(LabelledCountPositions(t))]])
                           ELSE 1
                  IN  IF slot = "None" THEN NoParse
                      ELSE [ok |-> TRUE, date |-> target, time_slot |-> slot,
                            required_count |-> n, notes |-> "None"]

\* shared/utils/text_parser.py parse_shift_request (used by the store bot)
NumPositions(t) == {i \in 1..Len(t) : IsNum(t[i])}

SharedParse(t) ==
    IF DatePositions(t) = {} THEN NoParse
    ELSE LET i == Min(DatePositions(t))
             month == Digits[t[i]]
             day == Digits[t[i + 2]]
         IN  IF ~ValidDate(month, day) THEN NoParse
             ELSE LET slot == IF HasTok(t, {"gozen", "AM", "am"}) THEN "time_morning"
                              ELSE IF HasTok(t, {"gogo", "PM", "pm"}) THEN "time_afternoon"
                              ELSE IF HasTok(t, {"yakan"}) THEN "time_evening"
                              ELSE "time_full_day"
                      \* re.search(r'(\d+)名?', text): the first run of digits
                      n == Digits[t[Min(NumPositions(t))]]
                  IN  [ok |-> TRUE, date |-> [y |-> 0, m |-> month, d |-> day],
                       time_slot |-> slot, required_count |-> n, notes |-> ""]

-----------------------------------------------------------------------------
(* Time buttons                                                            *)

\* A time of day is <<hour, minute>>.  HalfHours(a, b) lists a:00 .. b:00 in
\* steps of thirty minutes, as the literal lists of the menus do.
HalfHours(a, b) == [k \in 1..(2 * (b - a) + 1) |-> <<a + ((k - 1) \div 2), 30 * ((k - 1) % 2)>>]

\* label.replace(':', '') and f"{h}{str(m).zfill(2)}": the digits after the prefix
TimeDigits(hm) ==
    (IF hm[1] >= 10 THEN <<hm[1] \div 10, hm[1] % 10>> ELSE <<hm[1]>>)
        \o <<hm[2] \div 10, hm[2] % 10>>

\* int(s[0]), int(s[1:]) when len(s) == 3, else int(s[:2]), int(s[2:])
ParseTime(ds) ==
    IF Len(ds) = 3 THEN <<ds[1], 10 * ds[2] + ds[3]>>
    ELSE <<10 * ds[1] + ds[2], 10 * ds[3] + ds[4]>>

\* handle_start_time_detail_selection: the two start menus
StartTimes(period) == IF period = "morning" THEN HalfHours(8, 13) ELSE HalfHours(13, 19)

\* handle_end_time_band_detail_selection: the three end bands
EndTimes(band) ==
    IF band = "end_band_day" THEN HalfHours(10, 16)
    ELSE IF band = "end_band_evening" THEN HalfHours(16, 19)
    ELSE HalfHours(19, 22)

After(e, s) == e[1] > s[1] \/ (e[1] = s[1] /\ e[2] > s[2])

\* selectable = [(h,m) for (h,m) in end_times if h > start_hour or (...)]
Selectable(band, start) == SelectSeq(EndTimes(band), LAMBDA e : After(e, start))

StartsWith(ds, pre) == Len(ds) >= Len(pre) /\ SubSeq(ds, 1, Len(pre)) = pre

\* handle_count_choice: the bucket of a start_time token
TimeSlotOf(ds) ==
    IF \E pre \in {<<8>>, <<9>>, <<1, 0>>, <<1, 1>>, <<1, 2>>} : StartsWith(ds, pre)
        THEN "time_morning"
    ELSE IF \E pre \in {<<1, 3>>, <<1, 4>>, <<1, 5>>, <<1, 6>>} : StartsWith(ds, pre)
        THEN "time_afternoon"
    ELSE IF \E pre \in {<<1, 7>>, <<1, 8>>, <<1, 9>>, <<2, 0>>, <<2, 1>>, <<2, 2>>} :
            StartsWith(ds, pre)
        THEN "time_evening"
    ELSE "time_full_day"

\* handle_count_choice: count_num
CountNum(token) == IF token = "count_2" THEN 2 ELSE IF token = "count_3_plus" THEN 3 ELSE 1

-----------------------------------------------------------------------------
(* The main bot: routing of handle_text_message                            *)

Draft(u) == temp_data[u]

\* if user_management_service.get_temp_data(user_id, "custom_date_waiting")
CustomDateWaiting(u) == Has(Draft(u), "custom_date_waiting") /\ Draft(u)["custom_date_waiting"]

YesTexts == {<<"hai">>, <<"kakunin">>, <<"kakutei">>}

\* Keywords: tesuto = テスト, debaggu = デバッグ, tenpo_touroku = 店舗登録,
\* yakuzaishi_touroku = 薬剤師登録, touroku = 登録.
TextRoute(u, t) ==
    IF CustomDateWaiting(u) THEN "custom_date"
    ELSE IF t[1] = "tesuto" THEN "test_commands"
    ELSE IF t[1] = "debaggu" THEN "debug_commands"
    ELSE IF t = <<"tenpo_touroku">> THEN "store_registration"
    ELSE IF t[1] = "tenpo_touroku" THEN "store_registration_detailed"
    ELSE IF t = <<"yakuzaishi_touroku">> THEN "pharmacist_registration_prompt"
    ELSE IF t[1] = "touroku" THEN "pharmacist_registration"
    ELSE IF t \in YesTexts THEN "confirmation_yes"
    ELSE IF user_type[u] = "store" THEN "shift_request"
    ELSE "other_messages"

\* What a step leaves in `last`: the acting user, the handler that ran, the reply
\* to the acting user, the messages pushed to other users in this step, and the
\* ids or the token carried by the button (<<>> when the event carries none).
\* `shown` is the content of a confirmation summary, empty for other replies.
\* `raised` tells whether an exception left the handler.
ReplyS(u, h, r, P, e, sh) ==
    [user |-> u, handler |-> h, reply |-> r, pushes |-> P, event |-> e, shown |-> sh,
     raised |-> FALSE]
\* the handler was left by an exception: nothing was delivered to the user
Escaped(u, h, P, e) == [ReplyS(u, h, "none", P, e, EmptyDict) EXCEPT !.raised = TRUE]
ReplyE(u, h, r, P, e) == ReplyS(u, h, r, P, e, EmptyDict)
Reply(u, h, r) == ReplyE(u, h, r, {}, <<>>)
\* a text message: the event carries the text
ReplyT(u, h, r, t) == ReplyE(u, h, r, {}, t)
Msg(k, r, to) == [kind |-> k, req |-> r, to |-> to]

sideVars == <<pc, reminder_count, reminders_sent>>
roleVars == <<user_type, store_sheet, store_temp_data, now, sideVars>>
otherVars == <<roleVars, sheet>>

SetDraft(u, d) == temp_data' = [temp_data EXCEPT ![u] = d]

\* Tokens written without a space before them: "/", 名 (mei), 月 (gatsu), 日 (nichi)
Attached == {"/", "mei", "gatsu", "nichi"}
SpaceAfter(t, i) == i = Len(t) \/ t[i + 1] \notin Attached
BySlash(t, i) == (i < Len(t) /\ t[i + 1] = "/") \/ (i > 1 /\ t[i - 1] = "/")
\* a number, a space and AM or PM: dateutil reads the number as the hour
IsHour(t, i) ==
    IsNum(t[i]) /\ ~BySlash(t, i) /\ i < Len(t) /\ t[i + 1] \in {"AM", "PM", "am", "pm"}

\* dateutil parse(input_text, fuzzy=True), the date components it collects: a
\* number next to "/", a number followed by a space or by the end of the text,
\* and a number that could be a day (1..31); fuzzy skips every other token.
KeptNumbers(t) ==
    LET keep(i) == /\ IsNum(t[i])
                   /\ \/ BySlash(t, i)
                      \/ /\ ~IsHour(t, i)
                         /\ SpaceAfter(t, i) \/ Digits[t[i]] \in 1..31
        idx == SelectSeq([i \in 1..Len(t) |-> i], keep)
    IN  [j \in 1..Len(idx) |-> Digits[t[idx[j]]]]

\* dateutil parse(input_text, fuzzy=True): the components are read as year,
\* month and day by their number and size; what is missing is taken from
\* today; a text with no component, or with a month or day out of range, raises.
TryParseDate(t) ==
    LET ymd == KeptNumbers(t)
        n == Len(ymd)
        date == CASE n = 1 -> IF ymd[1] > 31 THEN [y |-> ymd[1], m |-> Today.m, d |-> Today.d]
                              ELSE [y |-> Today.y, m |-> Today.m, d |-> ymd[1]]
                  [] n = 2 -> IF ymd[1] > 31 THEN [y |-> ymd[1], m |-> ymd[2], d |-> Today.d]
                              ELSE IF ymd[2] > 31 THEN [y |-> ymd[2], m |-> ymd[1], d |-> Today.d]
                              ELSE [y |-> Today.y, m |-> ymd[1], d |-> ymd[2]]
                  [] n = 3 -> IF ymd[1] > 31 THEN [y |-> ymd[1], m |-> ymd[2], d |-> ymd[3]]
                              ELSE IF ymd[1] > 12 THEN [y |-> ymd[3], m |-> ymd[2], d |-> ymd[1]]
                              ELSE [y |-> ymd[3], m |-> ymd[1], d |-> ymd[2]]
                  [] OTHER -> Today
    IN  IF n > 3 \/ (n = 0 /\ ~\E i \in 1..Len(t) : IsHour(t, i)) THEN NoParse
        ELSE IF ValidDate(date.m, date.d) THEN [ok |-> TRUE, date |-> date]
        ELSE NoParse

\* handle_text_message, the custom_date_waiting branch
CustomDateText(u, t) ==
    /\ TextRoute(u, t) = "custom_date"
    /\ LET dt == TryParseDate(t)
       IN  IF dt.ok
           THEN /\ SetDraft(u, Put(Put(Put(Draft(u), "date", dt.date),
                                       "date_text", t),
                                   "custom_date_waiting", FALSE))
                /\ last' = ReplyT(u, "custom_date", "start_period_menu", t)
           ELSE /\ UNCHANGED temp_data
                /\ last' = ReplyT(u, "custom_date", "date_format_error", t)
    /\ UNCHANGED <<requests, log, otherVars>>

\* The same branch when calls of the LINE API fail: reply_ok tells whether the
\* reply_message of the try block is delivered, error_reply_ok whether the one
\* of the except block is.  The branch stands before the try block of
\* handle_text_message, so an exception raised in its except block leaves the
\* handler; the fields set before the failing reply stay set.
CustomDateTextWith(u, t, reply_ok, error_reply_ok) ==
    /\ TextRoute(u, t) = "custom_date"
    /\ LET dt == TryParseDate(t)
       IN  /\ IF dt.ok
              THEN SetDraft(u, Put(Put(Put(Draft(u), "date", dt.date), "date_text", t),
                                   "custom_date_waiting", FALSE))
              ELSE UNCHANGED temp_data
           /\ last' = IF dt.ok /\ reply_ok
                         THEN ReplyT(u, "custom_date", "start_period_menu", t)
                       ELSE IF error_reply_ok
                         THEN ReplyT(u, "custom_date", "date_format_error", t)
                       ELSE Escaped(u, "custom_date", {}, t)
    /\ UNCHANGED <<requests, log, otherVars>>

\* handle_parsed_shift_request
ParsedDraft(d, parsed) ==
    Put(Put(Put(Put(d, "date", parsed.date), "time_slot", parsed.time_slot),
            "required_count", parsed.required_count), "notes", parsed.notes)

\* handle_shift_request (from handle_text_message for a store user, or from the
\* shift_request_start button with an empty text)
ShiftRequest(u, t) ==
    IF u \notin store_sheet
    THEN /\ UNCHANGED temp_data
         /\ last' = ReplyT(u, "shift_request", "need_store_registration", t)
    ELSE IF AppParse(t).ok
    THEN /\ SetDraft(u, ParsedDraft(Draft(u), AppParse(t)))
         /\ last' = ReplyT(u, "shift_request", "confirm_summary", t)
    ELSE /\ UNCHANGED temp_data
         /\ last' = ReplyT(u, "shift_request", "date_menu", t)

ShiftRequestText(u, t) ==
    /\ TextRoute(u, t) = "shift_request"
    /\ ShiftRequest(u, t)
    /\ UNCHANGED <<requests, log, otherVars>>

\* handle_other_messages
OtherMessages(u, t) ==
    /\ TextRoute(u, t) = "other_messages"
    /\ last' = ReplyT(u, "other_messages",
                      IF user_type[u] = "unknown" THEN "welcome_guide" ELSE "not_recognized", t)
    /\ UNCHANGED <<temp_data, requests, log, otherVars>>

-----------------------------------------------------------------------------
(* Request registry: shared/services/request_manager.py                    *)

GetOr(d, k, default) == IF Has(d, k) THEN d[k] ELSE default
Contains(seq, x) == \E i \in 1..Len(seq) : seq[i] = x
Range(seq) == {seq[i] : i \in 1..Len(seq)}

\* RequestManager.save_request
SaveRequest(reqs, rid, data) ==
    Put(reqs, rid, Put(Put(data, "created_at", now), "status", "pending"))

\* add_applicant without the membership test
AddApplicantAlways(reqs, rid, uid) ==
    IF ~Has(reqs, rid) THEN reqs
    ELSE Put(reqs, rid, Put(reqs[rid], "applicants",
                            Append(GetOr(reqs[rid], "applicants", <<>>), uid)))

\* RequestManager.add_applicant
AddApplicant(reqs, rid, uid) ==
    IF ~Has(reqs, rid) THEN reqs
    ELSE LET applicants == GetOr(reqs[rid], "applicants", <<>>)
         IN  Put(reqs, rid, Put(reqs[rid], "applicants",
                                IF Contains(applicants, uid) THEN applicants
                                ELSE Append(applicants, uid)))

\* RequestManager.add_confirmed
AddConfirmed(reqs, rid, uid) ==
    IF ~Has(reqs, rid) THEN reqs
    ELSE LET confirmed == GetOr(reqs[rid], "confirmed", <<>>)
         IN  Put(reqs, rid, Put(reqs[rid], "confirmed",
                                IF Contains(confirmed, uid) THEN confirmed
                                ELSE Append(confirmed, uid)))

\* RequestManager.update_request_status
UpdateRequestStatus(reqs, rid, status) ==
    IF ~Has(reqs, rid) THEN reqs
    ELSE Put(reqs, rid, Put(Put(reqs[rid], "status", status), "updated_at", now))

\* RequestManager.get_applicants / get_confirmed
GetApplicants(reqs, rid) == IF ~Has(reqs, rid) THEN <<>> ELSE GetOr(reqs[rid], "applicants", <<>>)
GetConfirmed(reqs, rid) == IF ~Has(reqs, rid) THEN <<>> ELSE GetOr(reqs[rid], "confirmed", <<>>)

-----------------------------------------------------------------------------
(* The main bot: submission                                                *)

\* time_label(data, prefix) of handle_confirmation_yes: <<>> stands for 未選択
TimeLabel(d, k) == IF Has(d, k) THEN ParseTime(d[k]) ELSE <<>>

\* `not (date and time_slot and required_count)`
DraftComplete(d) ==
    /\ Has(d, "date")
    /\ Has(d, "time_slot")
    /\ Has(d, "required_count") /\ d["required_count"] # 0

\* request_data of handle_confirmation_yes; date_text, store and count_text, which
\* the code derives from date, the store and required_count, are left out
RequestData(u, d) ==
    [k \in {"date", "time_slot", "required_count", "notes", "store_user_id",
            "start_time_label", "end_time_label", "break_time_label"} |->
        CASE k = "date" -> d["date"]
          [] k = "time_slot" -> d["time_slot"]
          [] k = "required_count" -> d["required_count"]
          [] k = "notes" -> GetOr(d, "notes", "None")
          [] k = "store_user_id" -> u
          [] k = "start_time_label" -> TimeLabel(d, "start_time")
          [] k = "end_time_label" -> TimeLabel(d, "end_time")
          [] k = "break_time_label" -> GetOr(d, "break_time", "None")]

\* The rows of the schedule sheet that carry a pharmacist, top to bottom
\* (GoogleSheetsService._get_pharmacist_list); every row has a LINE user id.
Directory == <<"p1", "p2">>

\* GoogleSheetsService.get_available_pharmacists: the rows whose cell in the
\* column of the date is blank, in sheet order; the time slot is not looked at.
AvailablePharmacists(date) == SelectSeq(Directory, LAMBDA p : <<p, date>> \notin sheet)

\* seq[:n]
Take(seq, n) == SubSeq(seq, 1, IF n < Len(seq) THEN n ELSE Len(seq))

\* selected_pharmacists = available_pharmacists[:count_num]
SelectedPharmacists(d) == Take(AvailablePharmacists(d["date"]), d["required_count"])

\* notify_pharmacists_of_request: one push per selected pharmacist
RequestNotices(rid, d) == {Msg("request_notice", rid, p) : p \in Range(SelectedPharmacists(d))}

\* handle_confirmation_yes that saves the request and keeps the draft
ConfirmationYesKeepsDraft(u) ==
    IF ~DraftComplete(Draft(u)) \/ u \notin store_sheet
    THEN /\ last' = Reply(u, "confirmation_yes", "draft_not_found")
         /\ UNCHANGED <<temp_data, requests>>
    ELSE /\ requests' = SaveRequest(requests, RequestId(u, now), RequestData(u, Draft(u)))
         /\ UNCHANGED temp_data
         /\ last' = ReplyE(u, "confirmation_yes", "request_accepted",
                           RequestNotices(RequestId(u, now), Draft(u)), <<>>)

\* handle_confirmation_yes that drops an incomplete draft
ConfirmationYesClearsPartial(u) ==
    IF ~DraftComplete(Draft(u)) \/ u \notin store_sheet
    THEN /\ last' = Reply(u, "confirmation_yes", "draft_not_found")
         /\ SetDraft(u, EmptyDict)
         /\ UNCHANGED requests
    ELSE /\ requests' = SaveRequest(requests, RequestId(u, now), RequestData(u, Draft(u)))
         /\ SetDraft(u, EmptyDict)
         /\ last' = ReplyE(u, "confirmation_yes", "request_accepted",
                           RequestNotices(RequestId(u, now), Draft(u)), <<>>)

\* handle_confirmation_yes
ConfirmationYes(u) ==
    IF ~DraftComplete(Draft(u))
    THEN /\ last' = Reply(u, "confirmation_yes", "draft_not_found")
         /\ UNCHANGED <<temp_data, requests>>
    ELSE IF u \notin store_sheet
    THEN /\ last' = Reply(u, "confirmation_yes", "store_lookup_failed")
         /\ UNCHANGED <<temp_data, requests>>
    ELSE /\ requests' = SaveRequest(requests, RequestId(u, now), RequestData(u, Draft(u)))
         /\ SetDraft(u, EmptyDict)                 \* clear_temp_data
         /\ last' = ReplyE(u, "confirmation_yes", "request_accepted",
                           RequestNotices(RequestId(u, now), Draft(u)), <<>>)

\* handle_confirmation_yes that tells the store when a notification failed
ConfirmationYesSurfacesFailure(u, failed, reply_ok, error_reply_ok, push_ok) ==
    IF ~DraftComplete(Draft(u))
    THEN /\ last' = Reply(u, "confirmation_yes", "draft_not_found")
         /\ UNCHANGED <<temp_data, requests>>
    ELSE IF u \notin store_sheet
    THEN /\ last' = Reply(u, "confirmation_yes", "store_lookup_failed")
         /\ UNCHANGED <<temp_data, requests>>
    ELSE LET notices == RequestNotices(RequestId(u, now), Draft(u))
             sent == {m \in notices : m.to \notin failed}
         IN  /\ requests' = SaveRequest(requests, RequestId(u, now), RequestData(u, Draft(u)))
             /\ SetDraft(u, EmptyDict)
             /\ last' = ReplyE(u, "confirmation_yes",
                               IF sent = notices THEN "request_accepted" ELSE "dispatch_failed",
                               sent, <<>>)

\* handle_confirmation_yes called from handle_text_message or handle_postback,
\* when calls of the LINE API fail.  `failed` are the pharmacists whose push
\* raises (notify_pharmacists_of_request catches it per pharmacist); reply_ok:
\* the reply_message of the try block is delivered; error_reply_ok: the one of
\* the except block of handle_confirmation_yes is; push_ok: the apology pushed by
\* the except block of the calling handler is.  The request is saved and the
\* draft cleared before the reply is sent.
ConfirmationYesWith(u, failed, reply_ok, error_reply_ok, push_ok) ==
    LET complete == DraftComplete(Draft(u)) /\ u \in store_sheet
        notices == RequestNotices(RequestId(u, now), Draft(u))
        sent == IF complete THEN {m \in notices : m.to \notin failed} ELSE {}
        reply == IF ~reply_ok
                   THEN IF error_reply_ok THEN "confirm_error"
                        ELSE IF push_ok THEN "apology_push" ELSE "none"
                 ELSE IF ~DraftComplete(Draft(u)) THEN "draft_not_found"
                 ELSE IF u \notin store_sheet THEN "store_lookup_failed"
                 ELSE "request_accepted"
    IN  /\ IF complete
           THEN /\ requests' = SaveRequest(requests, RequestId(u, now), RequestData(u, Draft(u)))
                /\ SetDraft(u, EmptyDict)
           ELSE UNCHANGED <<temp_data, requests>>
        /\ last' = ReplyE(u, "confirmation_yes", reply, sent, <<>>)

\* handle_text_message: message_text in ["はい", "確認", "確定"], with failing calls
ConfirmationYesTextWith(u, t, failed, reply_ok, error_reply_ok, push_ok) ==
    /\ TextRoute(u, t) = "confirmation_yes"
    /\ ConfirmationYesWith(u, failed, reply_ok, error_reply_ok, push_ok)
    /\ UNCHANGED <<log, otherVars>>

\* handle_text_message: message_text in ["はい", "確認", "確定"]
ConfirmationYesText(u, t) ==
    /\ TextRoute(u, t) = "confirmation_yes"
    /\ ConfirmationYes(u)
    /\ UNCHANGED <<log, otherVars>>

\* handle_postback: data in ["はい", "確認", "確定", "accept", "ok", "yes"] or "accept:..."
ConfirmationYesPostback(u) ==
    /\ ConfirmationYes(u)
    /\ UNCHANGED <<log, otherVars>>

-----------------------------------------------------------------------------
(* The main bot: apply, store accept, store reject                         *)

\* the sheet after the cell of (uid, date) has been written; a user id with no
\* row in the sheet writes nothing
WriteCell(uid, date) == IF Contains(Directory, uid) THEN sheet \cup {<<uid, date>>} ELSE sheet

\* handle_pharmacist_apply, postback "pharmacist_apply:<request_id>"; the cell is
\* written in the column of the request's date, or of today when the request
\* is not in the registry
PharmacistApply(u, rid) ==
    /\ IF user_type[u] = "unknown"
       THEN /\ last' = ReplyE(u, "pharmacist_apply", "need_registration", {}, <<rid>>)
            /\ UNCHANGED <<requests, sheet>>
       ELSE IF user_type[u] = "store"
       THEN /\ last' = ReplyE(u, "pharmacist_apply", "store_cannot_apply", {}, <<rid>>)
            /\ UNCHANGED <<requests, sheet>>
       ELSE /\ requests' = AddApplicant(requests, rid, u)
            /\ sheet' = WriteCell(u, IF Has(requests, rid) THEN requests[rid]["date"] ELSE Today)
            /\ last' = ReplyE(u, "pharmacist_apply", "apply_done",
                              {Msg("apply_ack", rid, u)}, <<rid>>)
    /\ UNCHANGED <<temp_data, log, roleVars>>

\* count_num of handle_pharmacist_confirm_accept: request_data.get('count', 'count_1')
AcceptCountNum(request_data) == CountNum(GetOr(request_data, "count", "count_1"))

\* the closure loop of handle_pharmacist_confirm_accept
ClosureRecipients(reqs, rid, count_num) ==
    IF Len(GetConfirmed(reqs, rid)) >= count_num
    THEN Range(GetApplicants(reqs, rid)) \ Range(GetConfirmed(reqs, rid))
    ELSE {}

\* handle_pharmacist_confirm_accept without the early return on a missing request
PharmacistConfirmAcceptWithoutLookup(u, rid, ph) ==
    LET sent == {Msg("confirm_msg", rid, ph)}
    IN  /\ requests' = AddConfirmed(requests, rid, ph)
        /\ sheet' = WriteCell(ph, IF Has(requests, rid) THEN requests[rid]["date"] ELSE Today)
        /\ log' = log \cup sent
        /\ last' = ReplyE(u, "pharmacist_confirm_accept", "accept_done", sent, <<rid, ph>>)
        /\ UNCHANGED <<temp_data, roleVars>>

\* handle_pharmacist_confirm_accept, postback "pharmacist_confirm_accept:<rid>:<uid>"
PharmacistConfirmAccept(u, rid, ph) ==
    /\ IF ~Has(requests, rid)
       THEN /\ last' = ReplyE(u, "pharmacist_confirm_accept", "request_not_found",
                              {}, <<rid, ph>>)
            /\ UNCHANGED <<requests, log, sheet>>
       ELSE LET after == AddConfirmed(requests, rid, ph)
                closed == ClosureRecipients(after, rid, AcceptCountNum(requests[rid]))
                sent == {Msg("confirm_msg", rid, ph)} \cup {Msg("closure", rid, a) : a \in closed}
            IN  /\ requests' = after
                /\ sheet' = WriteCell(ph, requests[rid]["date"])
                /\ log' = log \cup sent
                /\ last' = ReplyE(u, "pharmacist_confirm_accept", "accept_done",
                                  sent, <<rid, ph>>)
    /\ UNCHANGED <<temp_data, roleVars>>

\* handle_pharmacist_confirm_reject that also takes the pharmacist off the applicants
PharmacistConfirmRejectDropsApplicant(u, rid, ph) ==
    /\ requests' = IF ~Has(requests, rid) THEN requests
                   ELSE Put(requests, rid,
                            Put(requests[rid], "applicants",
                                SelectSeq(GetApplicants(requests, rid), LAMBDA a : a # ph)))
    /\ last' = ReplyE(u, "pharmacist_confirm_reject", "reject_done",
                      {Msg("reject_msg", rid, ph)}, <<rid, ph>>)
    /\ UNCHANGED <<temp_data, log, otherVars>>

\* handle_pharmacist_confirm_reject, postback "pharmacist_confirm_reject:<rid>:<uid>"
PharmacistConfirmReject(u, rid, ph) ==
    /\ last' = ReplyE(u, "pharmacist_confirm_reject", "reject_done",
                      {Msg("reject_msg", rid, ph)}, <<rid, ph>>)
    /\ UNCHANGED <<temp_data, requests, log, otherVars>>

\* handle_pharmacist_decline, postback "pharmacist_decline:<request_id>"; the
\* acknowledgment is pushed by _handle_declination
PharmacistDecline(u, rid) ==
    /\ last' = IF user_type[u] = "unknown"
                 THEN ReplyE(u, "pharmacist_decline", "need_registration", {}, <<rid>>)
               ELSE IF user_type[u] = "store"
                 THEN ReplyE(u, "pharmacist_decline", "store_cannot_decline", {}, <<rid>>)
               ELSE ReplyE(u, "pharmacist_decline", "decline_done",
                           {Msg("decline_ack", rid, u)}, <<rid>>)
    /\ UNCHANGED <<temp_data, requests, log, otherVars>>

\* RequestManager.delete_request
DeleteRequest(reqs, rid) == [r \in (DOMAIN reqs) \ {rid} |-> reqs[r]]

\* for req_id in all_requests.keys(): request_manager.delete_request(req_id)
RECURSIVE DeleteEach(_, _)
DeleteEach(reqs, ids) ==
    IF ids = {} THEN reqs
    ELSE LET r == CHOOSE x \in ids : TRUE
         IN  DeleteEach(DeleteRequest(reqs, r), ids \ {r})

\* handle_debug_commands: デバッグ (help), デバッグ依頼 (irai: list the requests),
\* デバッグクリア (kuria: delete_request for every request id); any other text that
\* starts with デバッグ gets no reply
DebugCommands(u, t) ==
    /\ TextRoute(u, t) = "debug_commands"
    /\ IF t = <<"debaggu", "kuria">>
       THEN /\ requests' = DeleteEach(requests, DOMAIN requests)
            /\ last' = ReplyT(u, "debug_commands", "requests_cleared", t)
       ELSE /\ UNCHANGED requests
            /\ last' = ReplyT(u, "debug_commands",
                              IF t = <<"debaggu">> THEN "debug_help"
                              ELSE IF t = <<"debaggu", "irai">> THEN "request_list"
                              ELSE "none", t)
    /\ UNCHANGED <<temp_data, log, otherVars>>

\* the server clock advances between events
Tick ==
    /\ now < MaxClock
    /\ now' = now + 1
    /\ UNCHANGED <<user_type, store_sheet, temp_data, store_temp_data, requests, log, sheet,
                   sideVars, last>>

-----------------------------------------------------------------------------
(* Initial state and the arbitration specification                         *)

\* The registry, the drafts and the log start empty; the roles are those of a
\* deployment in which the store and the pharmacists have registered.
Init ==
    /\ user_type = [u \in Users |-> IF u \in StoreUsers THEN "store"
                                    ELSE IF u \in Pharmacists THEN "pharmacist"
                                    ELSE "unknown"]
    /\ store_sheet = StoreUsers
    /\ temp_data = [u \in Users |-> EmptyDict]
    /\ store_temp_data = EmptyDict
    /\ requests = EmptyDict
    /\ now = 0
    /\ log = {}
    /\ sheet = {}
    /\ pc = Idle
    /\ reminder_count = EmptyDict
    /\ reminders_sent = EmptyDict
    /\ last = Reply("none", "none", "none")

\* Free-text requests for one or two pharmacists on 4/12, morning.
ArbTexts == {<<"4", "/", "12", "AM", n, "mei">> : n \in {"1", "2"}}

\* One store posts requests in the same second; pharmacists apply; the store
\* accepts or rejects.
NextArb ==
    \/ \E u \in StoreUsers, t \in ArbTexts : ShiftRequestText(u, t)
    \/ \E u \in StoreUsers : ConfirmationYesText(u, <<"hai">>)
    \/ \E u \in Users, r \in ReqIds : PharmacistApply(u, r)
    \/ \E u \in StoreUsers, r \in ReqIds, ph \in Pharmacists : PharmacistConfirmAccept(u, r, ph)
    \/ \E u \in StoreUsers, r \in ReqIds, ph \in Pharmacists : PharmacistConfirmReject(u, r, ph)
    \/ \E u \in Users, r \in ReqIds : PharmacistDecline(u, r)

SpecArb == Init /\ [][NextArb]_vars

-----------------------------------------------------------------------------
(* Arbitration properties                                                  *)

RequiredCount(r) == requests[r]["required_count"]
Confirmed(r) == GetConfirmed(requests, r)
Applicants(r) == GetApplicants(requests, r)

\* The last step was a store accept of pharmacist ph on the stored request r.
AcceptedJust(r, ph) ==
    /\ last.handler = "pharmacist_confirm_accept"
    /\ last.reply = "accept_done"
    /\ last.event = <<r, ph>>

\* Closure messages pushed by the last step
ClosedJust(r) == {m.to : m \in {x \in last.pushes : x.kind = "closure" /\ x.req = r}}

\* C1: on a request with required_count = 1 whose two applicants are both
\* accepted by the store, one after the other, exactly one of them is in
\* confirmed and the one accepted second is told that the request is closed.
C1_ExactlyOneConfirmed ==
    \A r \in DOMAIN requests : \A ph \in Pharmacists :
        (/\ AcceptedJust(r, ph)
         /\ RequiredCount(r) = 1
         /\ Pharmacists \subseteq Range(Applicants(r))
         /\ \E q \in Pharmacists \ {ph} : Contains(Confirmed(r), q))
        => /\ Len(Confirmed(r)) = 1
           /\ ph \in ClosedJust(r)

\* C2: the number of confirmed pharmacists of a request never exceeds its
\* required_count.
C2_ConfirmedWithinRequired ==
    \A r \in DOMAIN requests : Len(Confirmed(r)) <= RequiredCount(r)

\* C3: confirmed is a subset of applicants, for every request.
C3_ConfirmedSubsetApplicants ==
    \A r \in DOMAIN requests : Range(Confirmed(r)) \subseteq Range(Applicants(r))

\* C4: a store accept sends closure messages exactly when confirmed has reached
\* required_count, and then to exactly applicants minus confirmed; so the first
\* accept on a request for two sends none.
C4_ClosureIffFilled ==
    \A r \in DOMAIN requests : \A ph \in Pharmacists :
        AcceptedJust(r, ph) =>
            ClosedJust(r) = IF Len(Confirmed(r)) >= RequiredCount(r)
                            THEN Range(Applicants(r)) \ Range(Confirmed(r))
                            ELSE {}

\* The last step was an apply by ph on the stored request r that went through.
AppliedJust(r, ph) ==
    /\ last.handler = "pharmacist_apply"
    /\ last.reply = "apply_done"
    /\ last.user = ph
    /\ last.event = <<r>>

NoDuplicates(seq) == \A i, j \in 1..Len(seq) : seq[i] = seq[j] => i = j

\* C5: an apply by an identity that is already among the applicants of the
\* request leaves applicants as it was (members, size and order), and no
\* identity is ever listed twice.
C5_ApplyIdempotent ==
    [][\A r \in DOMAIN requests : \A ph \in Pharmacists :
          /\ (AppliedJust(r, ph)' /\ Contains(Applicants(r), ph))
                => Applicants(r)' = Applicants(r)
          /\ NoDuplicates(Applicants(r))]_vars

\* A pharmacist who applied before the other one has just applied again.
C5_Witness ==
    \E r \in DOMAIN requests : \E ph \in Pharmacists :
        /\ AppliedJust(r, ph)
        /\ Len(Applicants(r)) = 2
        /\ Applicants(r)[1] = ph

-----------------------------------------------------------------------------
(* The main bot: step-by-step composition (handle_postback)                *)

\* selected_date.strftime('%Y/%m/%d'), the year left out
DateText(d) == <<NumTok(d.m), "/", NumTok(d.d)>>

\* (datetime.now() + timedelta(days=k)).date(), within the month of Today
AddDays(d, k) == [d EXCEPT !.d = d.d + k]

\* postback "shift_request_start": handle_shift_request(event, "")
ShiftRequestStart(u) ==
    /\ ShiftRequest(u, <<>>)
    /\ UNCHANGED <<requests, log, otherVars>>

\* Buttons that only show the next menu: select_date, select_start_time,
\* start_time_morning, start_time_afternoon, select_time, select_count
MenuTokens == {"select_date", "select_start_time", "start_time_morning",
               "start_time_afternoon", "select_time", "select_count"}

MenuPostback(u, tok) ==
    /\ tok \in MenuTokens
    /\ last' = Reply(u, "menu", tok)
    /\ UNCHANGED <<temp_data, requests, log, otherVars>>

\* postback "date_custom"
DateCustom(u) ==
    /\ SetDraft(u, Put(Draft(u), "custom_date_waiting", TRUE))
    /\ last' = Reply(u, "date_custom", "ask_date")
    /\ UNCHANGED <<requests, log, otherVars>>

\* handle_date_choice, postback "date_..."
DateChoice(u, tok) ==
    /\ IF tok \in {"date_today", "date_tomorrow", "date_day_after_tomorrow"}
       THEN LET selected_date == AddDays(Today, CASE tok = "date_today" -> 0
                                                  [] tok = "date_tomorrow" -> 1
                                                  [] OTHER -> 2)
            IN  /\ SetDraft(u, Put(Put(Draft(u), "date", selected_date),
                                   "date_text", DateText(selected_date)))
                /\ last' = ReplyT(u, "date_choice", "start_period_menu", <<tok>>)
       ELSE /\ UNCHANGED temp_data
            /\ last' = ReplyT(u, "date_choice", "invalid_date_choice", <<tok>>)
    /\ UNCHANGED <<requests, log, otherVars>>

\* postback "start_time_<digits>": stores the token, then handle_end_time_selection
StartTimeChoice(u, ds) ==
    /\ SetDraft(u, Put(Draft(u), "start_time", ds))
    /\ last' = ReplyT(u, "start_time", "end_band_menu", <<"start_time_", ds>>)
    /\ UNCHANGED <<requests, log, otherVars>>

\* handle_end_time_band_detail_selection, postback end_band_day/evening/night
EndBand(u, band) ==
    /\ last' = Reply(u, "end_band",
                     IF ~Has(Draft(u), "start_time") THEN "start_time_missing"
                     ELSE IF Selectable(band, ParseTime(Draft(u)["start_time"])) = <<>>
                          THEN "end_after_start_reprompt"
                     ELSE "end_time_menu")
    /\ UNCHANGED <<temp_data, requests, log, otherVars>>

\* postback "end_time_<digits>": stores the token, then handle_break_time_selection
EndTimeChoice(u, ds) ==
    /\ SetDraft(u, Put(Draft(u), "end_time", ds))
    /\ last' = ReplyT(u, "end_time", "break_menu", <<"end_time_", ds>>)
    /\ UNCHANGED <<requests, log, otherVars>>

\* postback "break_<minutes>": stores the token, then handle_count_selection
BreakChoice(u, tok) ==
    /\ SetDraft(u, Put(Draft(u), "break_time", tok))
    /\ last' = ReplyT(u, "break_time", "count_menu", <<tok>>)
    /\ UNCHANGED <<requests, log, otherVars>>

\* handle_time_choice, postback "time_..."
TimeText(tok) == IF tok \in {"time_morning", "time_afternoon", "time_evening", "time_full_day"}
                 THEN tok ELSE "fumei"

TimeChoice(u, tok) ==
    /\ SetDraft(u, Put(Put(Draft(u), "time", tok), "time_text", TimeText(tok)))
    /\ last' = ReplyT(u, "time_choice", "count_menu", <<tok>>)
    /\ UNCHANGED <<requests, log, otherVars>>

\* handle_count_choice, postback "count_..."
CountText(tok) == IF tok \in {"count_1", "count_2", "count_3_plus"} THEN tok ELSE "fumei"

\* date.strftime('%Y/%m/%d'), or 未選択 (misentaku) without a date
DateStr(d) ==
    IF Has(d, "date")
    THEN <<NumTok(d["date"].y), "/", NumTok(d["date"].m), "/", NumTok(d["date"].d)>>
    ELSE <<"misentaku">>

\* break_time_mapping.get(break_time_data, "未選択")
BreakLabel(d) ==
    IF Has(d, "break_time") /\ d["break_time"] \in {"break_30", "break_60", "break_90", "break_120"}
    THEN d["break_time"] ELSE "misentaku"

\* the confirmation summary of handle_count_choice, one entry per line of the text
SummaryStartWhereEndIs(d, tok) ==
    [k \in {"date", "start", "end", "break", "count"} |->
        CASE k = "date" -> DateStr(d)
          [] k = "start" -> TimeLabel(d, "start_time")
          [] k = "end" -> TimeLabel(d, "start_time")
          [] k = "break" -> BreakLabel(d)
          [] k = "count" -> CountText(tok)]

Summary(d, tok) ==
    [k \in {"date", "start", "end", "break", "count"} |->
        CASE k = "date" -> DateStr(d)
          [] k = "start" -> TimeLabel(d, "start_time")
          [] k = "end" -> TimeLabel(d, "end_time")
          [] k = "break" -> BreakLabel(d)
          [] k = "count" -> CountText(tok)]

CountChoice(u, tok) ==
    /\ LET d1 == Put(Put(Draft(u), "count", tok), "count_text", CountText(tok))
           time_slot == IF Has(d1, "start_time") THEN TimeSlotOf(d1["start_time"])
                        ELSE "time_full_day"
       IN  SetDraft(u, Put(Put(d1, "time_slot", time_slot), "required_count", CountNum(tok)))
    /\ last' = ReplyS(u, "count_choice", "confirm_summary", {}, <<tok>>, Summary(Draft(u), tok))
    /\ UNCHANGED <<requests, log, otherVars>>

-----------------------------------------------------------------------------
(* The store bot: store_bot/api/webhook.py                                 *)

\* store_temp_data.get(user_id, {})
StoreDraft(u) == GetOr(store_temp_data, u, EmptyDict)

\* Keywords: kinmu_irai = 勤務依頼, shifuto = シフト, kyanseru = キャンセル,
\* torikeshi = 取り消し.
StoreTextRoute(t) ==
    IF HasTok(t, {"kinmu_irai", "shifuto"}) THEN "store_shift_request"
    ELSE IF t \in YesTexts THEN "store_confirmation_yes"
    ELSE IF t \in {<<"iie">>, <<"kyanseru">>, <<"torikeshi">>} THEN "store_confirmation_no"
    ELSE "store_other_messages"

mainVars == <<user_type, store_sheet, temp_data, requests, now, log, sheet, sideVars>>

\* handle_store_shift_request and handle_store_parsed_shift_request
StoreShiftRequestText(u, t) ==
    /\ StoreTextRoute(t) = "store_shift_request"
    /\ IF SharedParse(t).ok
       THEN /\ store_temp_data' = Put(store_temp_data, u, ParsedDraft(StoreDraft(u), SharedParse(t)))
            /\ last' = ReplyT(u, "store_shift_request", "confirm_summary", t)
       ELSE /\ UNCHANGED store_temp_data
            /\ last' = ReplyT(u, "store_shift_request", "request_template", t)
    /\ UNCHANGED mainVars

\* ShiftRequest(...) in create_shift_request is built without its required
\* fields date and updated_at: pydantic raises, the handler's except replies.
StoreConfirmationYes(u, t) ==
    /\ StoreTextRoute(t) = "store_confirmation_yes"
    /\ last' = ReplyT(u, "store_confirmation_yes",
                      IF DraftComplete(StoreDraft(u)) THEN "confirm_error" ELSE "draft_not_found", t)
    /\ UNCHANGED <<store_temp_data, mainVars>>

\* handle_store_confirmation_no: del store_temp_data[user_id]
StoreConfirmationNo(u, t) ==
    /\ StoreTextRoute(t) = "store_confirmation_no"
    /\ store_temp_data' = [x \in (DOMAIN store_temp_data) \ {u} |-> store_temp_data[x]]
    /\ last' = ReplyT(u, "store_confirmation_no", "cancelled", t)
    /\ UNCHANGED mainVars

\* handle_store_other_messages
StoreOtherMessages(u, t) ==
    /\ StoreTextRoute(t) = "store_other_messages"
    /\ last' = ReplyT(u, "store_other_messages", "guide", t)
    /\ UNCHANGED <<store_temp_data, mainVars>>

\* handle_store_count_choice, postback "count_..."
StoreCountText(tok) ==
    IF tok \in {"count_1", "count_2", "count_3", "count_4_plus"} THEN tok ELSE "fumei"

StoreCountChoice(u, tok) ==
    /\ store_temp_data' = Put(store_temp_data, u,
                              Put(Put(StoreDraft(u), "count", tok), "count_text", StoreCountText(tok)))
    /\ last' = Reply(u, "store_count_choice", "confirm_summary")
    /\ UNCHANGED mainVars

-----------------------------------------------------------------------------
(* Choosing times: specification and properties                            *)

\* The user taps one of the first or one of the last MaxPick buttons of a menu.
PickIdx(n) == {i \in 1..n : i <= MaxPick \/ i > n - MaxPick}

StartTokens ==
    UNION {{TimeDigits(StartTimes(p)[i]) : i \in PickIdx(Len(StartTimes(p)))} :
              p \in {"morning", "afternoon"}}

Bands == {"end_band_day", "end_band_evening", "end_band_night"}

\* Every end-time button is shown for some start time and stays tappable after
\* the start time has been chosen again.
EndTokens ==
    UNION {{TimeDigits(EndTimes(b)[i]) : i \in PickIdx(Len(EndTimes(b)))} : b \in Bands}

NextTime ==
    \/ \E u \in StoreUsers, ds \in StartTokens : StartTimeChoice(u, ds)
    \/ \E u \in StoreUsers, b \in Bands : EndBand(u, b)
    \/ \E u \in StoreUsers, ds \in EndTokens : EndTimeChoice(u, ds)
    \/ \E u \in StoreUsers, tok \in {"break_30", "break_60"} : BreakChoice(u, tok)

SpecTime == Init /\ [][NextTime]_vars

\* C6: whenever a draft holds both a start time and an end time, the end time
\* is later than the start time.
C6_EndAfterStart ==
    \A u \in Users :
        (Has(Draft(u), "start_time") /\ Has(Draft(u), "end_time"))
            => After(ParseTime(Draft(u)["end_time"]), ParseTime(Draft(u)["start_time"]))

-----------------------------------------------------------------------------
(* Head counts: specification and properties                               *)

\* "シフト 4/12 AM <n>名" for n in 0..MaxTextCount
CountTexts == {<<"shifuto", "4", "/", "12", "AM", NumTok(n), "mei">> : n \in 0..MaxTextCount}

\* the buttons of the two head-count menus (handle_count_selection, handle_time_choice)
CountTokens == {"count_1", "count_2", "count_3", "count_3_plus", "count_4_plus"}

NextCount ==
    \/ \E u \in StoreUsers, t \in CountTexts : ShiftRequestText(u, t)
    \/ \E u \in StoreUsers : DateChoice(u, "date_today")
    \/ \E u \in StoreUsers, tok \in CountTokens : CountChoice(u, tok)
    \/ \E u \in StoreUsers : ConfirmationYesText(u, <<"hai">>)
    \/ \E u \in StoreUsers, t \in CountTexts : StoreShiftRequestText(u, t)

SpecCount == Init /\ [][NextCount]_vars

\* the head count the user wrote: the number in front of 名
WrittenCount(t) == Digits[t[Min(CountPositions(t))]]

\* C7: the "3-plus" button and every written head count above 3 leave
\* required_count = 3 in the draft, and every submitted request has a
\* required_count in 1..3.
C7_HeadcountClamp ==
    /\ \A r \in DOMAIN requests : RequiredCount(r) \in 1..3
    /\ (last.handler = "count_choice" /\ Draft(last.user)["count"] = "count_3_plus")
            => Draft(last.user)["required_count"] = 3
    /\ (last.handler = "shift_request" /\ last.reply = "confirm_summary"
            /\ WrittenCount(last.event) > 3)
            => Draft(last.user)["required_count"] = 3
    /\ (last.handler = "store_shift_request" /\ last.reply = "confirm_summary"
            /\ WrittenCount(last.event) > 3)
            => StoreDraft(last.user)["required_count"] = 3

-----------------------------------------------------------------------------
(* Roles: specification and properties                                     *)

RoleTexts == {<<"4", "/", "12", "AM", "1", "mei">>, <<"hai">>}

\* A registered pharmacist sends the texts and taps the buttons of composition.
NextRole ==
    \/ \E u \in Pharmacists, t \in RoleTexts : OtherMessages(u, t)
    \/ \E u \in Pharmacists, t \in RoleTexts : ConfirmationYesText(u, t)
    \/ \E u \in Pharmacists : ConfirmationYesPostback(u)
    \/ \E u \in Pharmacists : ShiftRequestStart(u)
    \/ \E u \in Pharmacists, tok \in {"date_today", "date_tomorrow"} : DateChoice(u, tok)
    \/ \E u \in Pharmacists, tok \in {"count_1", "count_2"} : CountChoice(u, tok)

SpecRole == Init /\ [][NextRole]_vars

CompositionHandlers == {"shift_request", "confirmation_yes", "date_custom", "date_choice",
                        "start_time", "end_band", "end_time", "break_time", "time_choice",
                        "count_choice", "menu", "other_messages"}

\* the replies that turn the user away
RoleErrors == {"not_recognized", "need_store_registration", "store_lookup_failed",
               "draft_not_found"}

\* C8: a user with the pharmacist role who sends a composition or confirmation
\* event is turned away, keeps an empty draft and has no request stored.
C8_RoleGating ==
    \A u \in Users :
        user_type[u] = "pharmacist" =>
            /\ Draft(u) = EmptyDict
            /\ (last.user = u /\ last.handler \in CompositionHandlers) => last.reply \in RoleErrors
            /\ \A r \in DOMAIN requests : requests[r]["store_user_id"] # u

-----------------------------------------------------------------------------
(* The life of a draft: specification and properties                       *)

\* konnichiwa = こんにちは, a text no handler knows
DraftTexts == {<<"4", "/", "12", "AM", "2", "mei">>, <<"iie">>}
DateTexts == {<<"4", "/", "15">>, <<"iie">>}
StoreTexts == {<<"shifuto", "4", "/", "12", "AM", "2", "mei">>, <<"hai">>, <<"iie">>,
               <<"konnichiwa">>}

\* One store composes requests in the main bot, by text and by buttons, and
\* in the store bot; a stranger writes in between.
NextDraft ==
    \/ \E u \in StoreUsers, t \in DraftTexts : ShiftRequestText(u, t)
    \/ \E u \in StoreUsers, t \in DateTexts : CustomDateText(u, t)
    \/ \E u \in StoreUsers : ConfirmationYesText(u, <<"hai">>)
    \/ \E u \in Strangers : OtherMessages(u, <<"konnichiwa">>)
    \/ \E u \in StoreUsers : ShiftRequestStart(u)
    \/ \E u \in StoreUsers : MenuPostback(u, "select_count")
    \/ \E u \in StoreUsers : DateCustom(u)
    \/ \E u \in StoreUsers : DateChoice(u, "date_today")
    \/ \E u \in StoreUsers : StartTimeChoice(u, TimeDigits(StartTimes("morning")[1]))
    \/ \E u \in StoreUsers : CountChoice(u, "count_2")
    \/ \E u \in StoreUsers, t \in StoreTexts : StoreShiftRequestText(u, t)
    \/ \E u \in StoreUsers, t \in StoreTexts : StoreConfirmationYes(u, t)
    \/ \E u \in StoreUsers, t \in StoreTexts : StoreConfirmationNo(u, t)
    \/ \E u \in StoreUsers, t \in StoreTexts : StoreOtherMessages(u, t)
    \/ \E u \in StoreUsers : StoreCountChoice(u, "count_2")

SpecDraft == Init /\ [][NextDraft]_vars

\* The last step submitted a request of u (main bot).
SubmittedJust(u) ==
    /\ last.user = u
    /\ last.handler = "confirmation_yes"
    /\ last.reply = "request_accepted"

\* The last step ran the cancel handler for u (store bot).
CancelledJust(u) ==
    /\ last.user = u
    /\ last.handler = "store_confirmation_no"

AwaitingConfirmation(u) ==
    /\ last.user = u
    /\ last.reply = "confirm_summary"
    /\ last.handler \in {"shift_request", "count_choice"}

\* The last step handled the text いいえ from u in the main bot.
NegativeJust(u) ==
    /\ last.user = u
    /\ last.event = <<"iie">>
    /\ last.handler \in {"shift_request", "other_messages", "custom_date", "confirmation_no"}

\* C10: when the confirmation summary is showing and the store user answers
\* いいえ, the draft is cleared and no request is saved.
C10_NegativeTokenCancels ==
    [][\A u \in StoreUsers :
          (AwaitingConfirmation(u) /\ NegativeJust(u)')
              => (Draft(u)' = EmptyDict /\ requests' = requests)]_vars

-----------------------------------------------------------------------------
(* The confirmation summary: specification and properties                  *)

\* the buttons of handle_count_selection
MenuCountTokens == {"count_1", "count_2", "count_3_plus"}

\* A store walks through the steps, in any order and as often as it likes.
NextSummary ==
    \/ \E u \in StoreUsers, tok \in {"date_today", "date_tomorrow"} : DateChoice(u, tok)
    \/ \E u \in StoreUsers, ds \in StartTokens : StartTimeChoice(u, ds)
    \/ \E u \in StoreUsers, ds \in EndTokens : EndTimeChoice(u, ds)
    \/ \E u \in StoreUsers, tok \in {"break_30", "break_60"} : BreakChoice(u, tok)
    \/ \E u \in StoreUsers, tok \in MenuCountTokens : CountChoice(u, tok)

SpecSummary == Init /\ [][NextSummary]_vars

\* The last step of u ran handler h.
HandledJust(u, h) == last.user = u /\ last.handler = h

\* every field of d but those in K is in e with the same value
SameBut(d, e, K) == \A k \in (DOMAIN d) \ K : Has(e, k) /\ e[k] = d[k]

-----------------------------------------------------------------------------
(* The two ways to a draft: one parsed message, or the buttons             *)

\* Free-text requests for today (4/10), morning or afternoon, two pharmacists.
PathTexts == {<<"4", "/", "10", slot, "2", "mei">> : slot \in {"AM", "PM"}}

\* the first button of the morning menu and the first of the afternoon menu
PathStartTokens == {TimeDigits(StartTimes(p)[1]) : p \in {"morning", "afternoon"}}

\* A store writes a request in one message or taps it together, and submits.
NextPaths ==
    \/ \E u \in StoreUsers, t \in PathTexts : ShiftRequestText(u, t)
    \/ \E u \in StoreUsers : DateChoice(u, "date_today")
    \/ \E u \in StoreUsers, ds \in PathStartTokens : StartTimeChoice(u, ds)
    \/ \E u \in StoreUsers, tok \in {"count_1", "count_2"} : CountChoice(u, tok)
    \/ \E u \in StoreUsers : ConfirmationYesText(u, <<"hai">>)
    \/ Tick

SpecPaths == Init /\ [][NextPaths]_vars

\* What a time_slot value stands for: the values of the TimeSlot enum written
\* by the parser (shujitsu = 終日) and the bucket names of handle_count_choice.
SlotMeaning(slot) ==
    CASE slot \in {"AM", "time_morning"} -> "morning"
      [] slot \in {"PM", "time_afternoon"} -> "afternoon"
      [] slot = "time_evening" -> "evening"
      [] slot \in {"shujitsu", "time_full_day"} -> "full_day"
      [] OTHER -> "unknown"

\* C12: two requests for the same date, the same part of the day and the same
\* head count carry the same time_slot value, whichever way their drafts were
\* built (one parsed message or the button sequence).
C12_PathsConverge ==
    \A r1, r2 \in DOMAIN requests :
        (/\ requests[r1]["date"] = requests[r2]["date"]
         /\ requests[r1]["required_count"] = requests[r2]["required_count"]
         /\ SlotMeaning(requests[r1]["time_slot"]) = SlotMeaning(requests[r2]["time_slot"]))
            => requests[r1]["time_slot"] = requests[r2]["time_slot"]

-----------------------------------------------------------------------------
(* Dispatch and store accept: properties over the arbitration specification *)

\* the users notified by the last step
Notified == {m.to : m \in last.pushes}

\* C13: when a request is submitted, the request notices go to the first N
\* pharmacists of the sheet whose cell for the date is blank, in sheet order,
\* with N = min(number of such pharmacists, required_count * 2), and to nobody else.
C13_DispatchFirstN ==
    [][\A u \in StoreUsers :
          (HandledJust(u, "confirmation_yes")' /\ last'.reply = "request_accepted")
              => LET req == requests'[RequestId(u, now)]
                     available == AvailablePharmacists(req["date"])
                     N == Min({Len(available), req["required_count"] * 2})
                 IN  /\ Notified' = Range(SubSeq(available, 1, N))
                     /\ \A m \in last'.pushes : m.kind = "request_notice"]_vars

\* C14: a store accept that names a request id the registry does not hold is
\* answered with the failure message and does nothing else: no message is
\* pushed, no cell of the sheet is written and the registry is unchanged.
C14_AcceptUnknownStops ==
    [][\A r \in ReqIds, ph \in Pharmacists :
          (/\ ~Has(requests, r)
           /\ last'.handler = "pharmacist_confirm_accept"
           /\ last'.event = <<r, ph>>)
              => (/\ last'.reply = "request_not_found"
                  /\ last'.pushes = {}
                  /\ sheet' = sheet
                  /\ requests' = requests
                  /\ log' = log)]_vars

\* The store has just accepted on an id that is not in the registry, while the
\* registry holds another request with an applicant and the sheet has entries.
C14_Witness ==
    /\ last.handler = "pharmacist_confirm_accept"
    /\ last.reply = "request_not_found"
    /\ ~Has(requests, last.event[1])
    /\ \E r \in DOMAIN requests : Applicants(r) # <<>>
    /\ sheet # {}

\* C16: a store reject and a pharmacist's decline leave every request of the
\* registry as it was (applicants, confirmed, status); the reject pushes one
\* message, to the pharmacist it names; the decline pushes nothing but the
\* acknowledgment to the pharmacist who declined.
C16_RejectAndDeclineKeepRegistry ==
    [][/\ last'.handler = "pharmacist_confirm_reject" =>
             /\ requests' = requests
             /\ last'.pushes = {Msg("reject_msg", last'.event[1], last'.event[2])}
       /\ last'.handler = "pharmacist_decline" =>
             /\ requests' = requests
             /\ last'.pushes \subseteq {Msg("decline_ack", last'.event[1], last'.user)}
             /\ user_type[last'.user] = "pharmacist" => last'.pushes # {}]_vars

\* An applicant of a request for two has just declined it, while the other
\* applicant is confirmed.
C16_Witness ==
    /\ last.handler = "pharmacist_decline"
    /\ last.reply = "decline_done"
    /\ Has(requests, last.event[1])
    /\ RequiredCount(last.event[1]) = 2
    /\ Contains(Applicants(last.event[1]), last.user)
    /\ \E ph \in Pharmacists \ {last.user} : Confirmed(last.event[1]) = <<ph>>

-----------------------------------------------------------------------------
(* The status of a request                                                 *)

\* A call of RequestManager.update_request_status, the only writer of status
\* after save_request.  No handler of the bots calls it: the step stands for a
\* caller outside the webhook and belongs to SpecStatus alone.
StatusUpdate(rid, status) ==
    /\ requests' = UpdateRequestStatus(requests, rid, status)
    /\ last' = ReplyE("registry", "update_request_status",
                      IF Has(requests, rid) THEN "updated" ELSE "not_found", {}, <<rid>>)
    /\ UNCHANGED <<temp_data, log, otherVars>>

\* One store posts requests, pharmacists apply, the store accepts, and the
\* status of a request is set to cancelled.
NextStatus ==
    \/ \E u \in StoreUsers, t \in ArbTexts : ShiftRequestText(u, t)
    \/ \E u \in StoreUsers : ConfirmationYesText(u, <<"hai">>)
    \/ \E u \in Pharmacists, r \in ReqIds : PharmacistApply(u, r)
    \/ \E u \in StoreUsers, r \in ReqIds, ph \in Pharmacists : PharmacistConfirmAccept(u, r, ph)
    \/ \E r \in ReqIds : StatusUpdate(r, "cancelled")

SpecStatus == Init /\ [][NextStatus]_vars

-----------------------------------------------------------------------------
(* Confirmed assignments over the life of a request                        *)

DebugTexts == {<<"debaggu", "irai">>, <<"debaggu", "kuria">>}

\* One store posts requests for one or two pharmacists, pharmacists apply, the
\* store accepts, and a user sends debug commands.
NextTerminal ==
    \/ \E u \in StoreUsers, t \in ArbTexts : ShiftRequestText(u, t)
    \/ \E u \in StoreUsers : ConfirmationYesText(u, <<"hai">>)
    \/ \E u \in Pharmacists, r \in ReqIds : PharmacistApply(u, r)
    \/ \E u \in StoreUsers, r \in ReqIds, ph \in Pharmacists : PharmacistConfirmAccept(u, r, ph)
    \/ \E u \in StoreUsers, t \in DebugTexts : DebugCommands(u, t)

SpecTerminal == Init /\ [][NextTerminal]_vars

\* C17: a pharmacist in the confirmed list of a request stays in it whatever
\* happens next, and once the list is as long as required_count no step
\* changes it.
C17_ConfirmedIsTerminal ==
    [][\A r \in DOMAIN requests :
          /\ \A ph \in Range(Confirmed(r)) : Contains(Confirmed(r)', ph)
          /\ Len(Confirmed(r)) >= RequiredCount(r) => Confirmed(r)' = Confirmed(r)]_vars

\* C18: the status of a request follows its fill level: it is completed
\* exactly when confirmed holds required_count pharmacists or more, and a
\* request for two with one confirmed pharmacist is processing.
C18_StatusFollowsFill ==
    \A r \in DOMAIN requests :
        /\ requests[r]["status"] = "completed" <=> Len(Confirmed(r)) >= RequiredCount(r)
        /\ (RequiredCount(r) = 2 /\ Len(Confirmed(r)) = 1) => requests[r]["status"] = "processing"

-----------------------------------------------------------------------------
(* Typing the date                                                         *)

\* 4/15, 4月15日, 13月40日, いいえ
CustomDateTexts ==
    {<<"4", "/", "15">>, <<"4", "gatsu", "15", "nichi">>, <<"13", "gatsu", "40", "nichi">>,
     <<"iie">>}

\* A store picks the date with a button or asks to type it, types it, and goes on
\* with the start time and the head count.
NextCustomDate ==
    \/ \E u \in StoreUsers : DateCustom(u)
    \/ \E u \in StoreUsers, t \in CustomDateTexts : CustomDateText(u, t)
    \/ \E u \in StoreUsers, tok \in {"date_today", "date_tomorrow"} : DateChoice(u, tok)
    \/ \E u \in StoreUsers, ds \in PathStartTokens : StartTimeChoice(u, ds)
    \/ \E u \in StoreUsers, tok \in {"count_1", "count_2"} : CountChoice(u, tok)

SpecCustomDate == Init /\ [][NextCustomDate]_vars

\* The text names a month and a day of the calendar in one of the formats of
\* the prompt (4/15, 4月15日).
DenotesDate(t) ==
    \E i \in 1..Len(t) :
        /\ IsNum(t[i])
        /\ \/ /\ i + 2 <= Len(t) /\ t[i + 1] = "/" /\ IsNum(t[i + 2])
              /\ ValidDate(Digits[t[i]], Digits[t[i + 2]])
           \/ /\ i + 3 <= Len(t) /\ t[i + 1] = "gatsu" /\ IsNum(t[i + 2]) /\ t[i + 3] = "nichi"
              /\ ValidDate(Digits[t[i]], Digits[t[i + 2]])

\* C19: while the system waits for a typed date, a text that names no date of
\* the calendar is answered with the date-format example and changes nothing
\* in the draft: no date is stored and the flag stays set.
C19_BadCustomDateReprompts ==
    [][\A u \in StoreUsers :
          (/\ CustomDateWaiting(u)
           /\ HandledJust(u, "custom_date")'
           /\ ~DenotesDate(last'.event))
              => (/\ last'.reply = "date_format_error"
                  /\ Draft(u)' = Draft(u))]_vars

-----------------------------------------------------------------------------
(* Confirming an incomplete draft                                          *)

\* date, time_slot or required_count is not in the draft
FieldMissing(d) == \E k \in {"date", "time_slot", "required_count"} : ~Has(d, k)

\* C20: an affirmative answer while date, time_slot or required_count is
\* missing from the draft is answered by asking the user to start over; no
\* request is saved, nobody is notified and the draft is left as it is (main
\* bot and store bot alike).
C20_YesOnIncompleteDraft ==
    [][\A u \in StoreUsers :
          /\ (FieldMissing(Draft(u)) /\ HandledJust(u, "confirmation_yes")')
                => (/\ last'.reply = "draft_not_found"
                    /\ last'.pushes = {}
                    /\ requests' = requests
                    /\ Draft(u)' = Draft(u))
          /\ (FieldMissing(StoreDraft(u)) /\ HandledJust(u, "store_confirmation_yes")')
                => (/\ last'.reply = "draft_not_found"
                    /\ last'.pushes = {}
                    /\ requests' = requests
                    /\ StoreDraft(u)' = StoreDraft(u))]_vars

\* The store has answered はい to the main bot with a draft that holds a date
\* and a start time but no head count yet.
C20_Witness ==
    \E u \in StoreUsers :
        /\ HandledJust(u, "confirmation_yes")
        /\ last.reply = "draft_not_found"
        /\ Has(Draft(u), "date")
        /\ Has(Draft(u), "start_time")
        /\ ~Has(Draft(u), "required_count")

-----------------------------------------------------------------------------
(* Failing calls of the LINE API                                           *)

\* A store types a request or a date and confirms, while replies and pushes
\* fail at will.
NextFailure ==
    \/ \E u \in StoreUsers, t \in ArbTexts : ShiftRequestText(u, t)
    \/ \E u \in StoreUsers : DateCustom(u)
    \/ \E u \in StoreUsers, t \in DateTexts, reply_ok, error_reply_ok \in BOOLEAN :
            CustomDateTextWith(u, t, reply_ok, error_reply_ok)
    \/ \E u \in StoreUsers, failed \in SUBSET Pharmacists,
            reply_ok, error_reply_ok, push_ok \in BOOLEAN :
            ConfirmationYesTextWith(u, <<"hai">>, failed, reply_ok, error_reply_ok, push_ok)

SpecFailure == Init /\ [][NextFailure]_vars

\* C21: no exception leaves an event handler, whichever calls of the LINE API
\* fail, the reply of an error path included.
C21_NoExceptionEscapes == ~last.raised

-----------------------------------------------------------------------------
(* Dispatch with failing notifications                                     *)

\* A store posts requests and pharmacists apply; at submission the push to any
\* of the pharmacists may fail, the replies to the store are delivered.
NextDispatch ==
    \/ \E u \in StoreUsers, t \in ArbTexts : ShiftRequestText(u, t)
    \/ \E u \in StoreUsers, failed \in SUBSET Pharmacists :
            ConfirmationYesTextWith(u, <<"hai">>, failed, TRUE, TRUE, TRUE)
    \/ \E u \in Pharmacists, r \in ReqIds : PharmacistApply(u, r)

SpecDispatch == Init /\ [][NextDispatch]_vars

\* C22: an affirmative answer on a complete draft saves the request and is
\* answered with the acceptance message, whether none, some or all of the
\* notifications to the pharmacists fail.
C22_AckWhateverDispatchDoes ==
    [][\A u \in StoreUsers :
          (/\ DraftComplete(Draft(u))
           /\ u \in store_sheet
           /\ HandledJust(u, "confirmation_yes")')
              => (/\ last'.reply = "request_accepted"
                  /\ requests' = SaveRequest(requests, RequestId(u, now), RequestData(u, Draft(u)))
                  /\ last'.pushes \subseteq RequestNotices(RequestId(u, now), Draft(u)))]_vars

\* A request for two has just been accepted with both pharmacists available
\* and one of the two notifications lost.
C22_Witness ==
    \E u \in StoreUsers :
        /\ HandledJust(u, "confirmation_yes")
        /\ last.reply = "request_accepted"
        /\ Has(requests, RequestId(u, now))
        /\ RequiredCount(RequestId(u, now)) = 2
        /\ Len(AvailablePharmacists(requests[RequestId(u, now)]["date"])) = 2
        /\ Cardinality(last.pushes) = 1

-----------------------------------------------------------------------------
(* A user who has not registered                                           *)

\* An unregistered user writes, taps the buttons of composition and the
\* buttons of a request notice.
NextStranger ==
    \/ \E u \in Strangers, t \in RoleTexts : OtherMessages(u, t)
    \/ \E u \in Strangers, t \in RoleTexts : ConfirmationYesText(u, t)
    \/ \E u \in Strangers : DateCustom(u)
    \/ \E u \in Strangers, t \in DateTexts : CustomDateText(u, t)
    \/ \E u \in Strangers, tok \in {"date_today", "date_tomorrow"} : DateChoice(u, tok)
    \/ \E u \in Strangers, ds \in PathStartTokens : StartTimeChoice(u, ds)
    \/ \E u \in Strangers, tok \in {"count_1", "count_2"} : CountChoice(u, tok)
    \/ \E u \in Strangers, r \in ReqIds : PharmacistApply(u, r)
    \/ \E u \in Strangers, r \in ReqIds : PharmacistDecline(u, r)

SpecStranger == Init /\ [][NextStranger]_vars

\* the replies that send an unregistered user to registration
RegistrationPrompts == {"welcome_guide", "need_registration"}

\* C23: a user whose role is unknown gets the welcome or registration prompt
\* on every event, has no draft field and no request.
C23_UnknownStaysOut ==
    \A u \in Users :
        user_type[u] = "unknown" =>
            /\ Draft(u) = EmptyDict
            /\ last.user = u => last.reply \in RegistrationPrompts
            /\ \A r \in DOMAIN requests : requests[r]["store_user_id"] # u

-----------------------------------------------------------------------------
(* Other input while the confirmation summary is showing                   *)

\* a request, こんにちは (a text that is no request and no answer), いいえ
RestateTexts == {<<"4", "/", "12", "AM", "2", "mei">>, <<"konnichiwa">>, <<"iie">>}

\* A store composes a request by text or by buttons, and with the summary on
\* the screen writes something else or taps a button again.
NextRestate ==
    \/ \E u \in StoreUsers, t \in RestateTexts : ShiftRequestText(u, t)
    \/ \E u \in StoreUsers : ConfirmationYesText(u, <<"hai">>)
    \/ \E u \in StoreUsers, tok \in {"date_today", "date_tomorrow"} : DateChoice(u, tok)
    \/ \E u \in StoreUsers, ds \in PathStartTokens : StartTimeChoice(u, ds)
    \/ \E u \in StoreUsers, tok \in {"count_1", "count_2"} : CountChoice(u, tok)

SpecRestate == Init /\ [][NextRestate]_vars

\* C24: while the confirmation summary is showing, an input that is neither
\* an affirmative nor a negative token shows the summary again and leaves the
\* draft as it is.
C24_OtherInputRestates ==
    [][\A u \in StoreUsers :
          (/\ AwaitingConfirmation(u)
           /\ last'.user = u
           /\ last'.handler # "confirmation_yes"
           /\ last'.event # <<"iie">>)
              => (/\ last'.reply = "confirm_summary"
                  /\ Draft(u)' = Draft(u))]_vars

-----------------------------------------------------------------------------
(* Applications: what the pharmacist and the store receive                 *)

\* store_user_id of the pharmacist bot's store notification: one fixed LINE id,
\* whichever store posted the request
FixedStoreUserId == "sunrise"

\* the buttons template "薬剤師が応募しました！": both actions carry request_id and user_id
StoreNotice(rid, ph, to) == [kind |-> "apply_notice", req |-> rid, to |-> to, applicant |-> ph]

\* request_manager of the pharmacist bot's webhook module: a RequestManager of
\* its own, created at import; nothing is ever saved into it, so it stays empty
\* and its add_applicant finds no request to update
BotRequests == EmptyDict

\* handle_pharmacist_apply of the pharmacist bot, postback "pharmacist_apply:<rid>";
\* add_applicant acts on the module's own registry, never on the registry the
\* store's handlers read
PharmacistBotApply(u, rid) ==
    /\ AddApplicant(BotRequests, rid, u) = BotRequests
    /\ UNCHANGED requests
    /\ last' = ReplyE(u, "pharmacist_bot_apply", "application_received",
                      {StoreNotice(rid, u, FixedStoreUserId)}, <<rid>>)
    /\ UNCHANGED <<temp_data, log, otherVars>>

\* A store posts requests; pharmacists apply through the main bot or through
\* the pharmacist bot.
NextApply ==
    \/ \E u \in StoreUsers, t \in ArbTexts : ShiftRequestText(u, t)
    \/ \E u \in StoreUsers : ConfirmationYesText(u, <<"hai">>)
    \/ \E u \in Users, r \in ReqIds : PharmacistApply(u, r)
    \/ \E u \in Pharmacists, r \in ReqIds : PharmacistBotApply(u, r)

SpecApply == Init /\ [][NextApply]_vars

\* the acting pharmacist has been told that the application was received
ApplyAcked(l, u, rid) ==
    /\ l.user = u
    /\ \/ l.reply = "application_received"
       \/ Msg("apply_ack", rid, u) \in l.pushes

\* C25: an apply that adds a pharmacist to the applicants of a request is
\* acknowledged to that pharmacist and notifies the store that posted the
\* request, with accept and reject actions for that request and pharmacist.
C25_ApplyNotifiesStore ==
    [][\A u \in Users, r \in ReqIds :
          (/\ ~Contains(GetApplicants(requests, r), u)
           /\ Contains(GetApplicants(requests, r), u)')
              => (/\ ApplyAcked(last', u, r)
                  /\ StoreNotice(r, u, requests[r]["store_user_id"]) \in last'.pushes)]_vars

-----------------------------------------------------------------------------
(* Registration keywords                                                   *)

\* UserManagementService.set_user_type (memory cache and session)
SetUserType(u, role) == user_type' = [user_type EXCEPT ![u] = role]

regVars == <<store_sheet, temp_data, store_temp_data, requests, now, log, sheet, sideVars>>

\* handle_store_registration, the text "店舗登録"
StoreRegistration(u) ==
    /\ SetUserType(u, "store")
    /\ last' = ReplyT(u, "store_registration", "store_registered", <<"tenpo_touroku">>)
    /\ UNCHANGED regVars

\* handle_pharmacist_registration_prompt, the text "薬剤師登録"
PharmacistRegistrationPrompt(u) ==
    /\ SetUserType(u, "pharmacist")
    /\ last' = ReplyT(u, "pharmacist_registration_prompt", "registration_format",
                      <<"yakuzaishi_touroku">>)
    /\ UNCHANGED regVars

\* handle_text_message, a text that starts with "登録": `complete` tells whether it
\* has name, phone and availability, `success` the result of register_pharmacist
PharmacistRegistrationText(u, complete, success) ==
    /\ IF user_type[u] = "store"
       THEN /\ last' = ReplyT(u, "pharmacist_registration", "store_cannot_register",
                              <<"touroku">>)
            /\ UNCHANGED user_type
       ELSE IF ~complete
       THEN /\ last' = ReplyT(u, "pharmacist_registration", "registration_format",
                              <<"touroku">>)
            /\ UNCHANGED user_type
       ELSE IF success
       THEN /\ SetUserType(u, "pharmacist")
            /\ last' = ReplyT(u, "pharmacist_registration", "pharmacist_registered",
                              <<"touroku">>)
       ELSE /\ last' = ReplyT(u, "pharmacist_registration", "registration_failed",
                              <<"touroku">>)
            /\ UNCHANGED user_type
    /\ UNCHANGED regVars

\* Every user may send a registration keyword, a request text or an answer.
NextRegister ==
    \/ \E u \in Users : StoreRegistration(u)
    \/ \E u \in Users : PharmacistRegistrationPrompt(u)
    \/ \E u \in Users, complete, success \in BOOLEAN :
            PharmacistRegistrationText(u, complete, success)
    \/ \E u \in Users, t \in RoleTexts : ShiftRequestText(u, t)
    \/ \E u \in Users, t \in RoleTexts : OtherMessages(u, t)

SpecRegister == Init /\ [][NextRegister]_vars

\* C26: once a user is a store or a pharmacist, no event of that user changes
\* the role, a registration keyword of the other kind included.
C26_RoleSetOnce ==
    [][\A u \in Users :
          user_type[u] # "unknown" => user_type'[u] = user_type[u]]_vars

-----------------------------------------------------------------------------
(* Reminders: app/services/notification_service.py                         *)

\* the shift requests of NotificationService (shift_request.id)
ShiftRequestIds == {"sr1", "sr2"}

\* int(reminder_count) >= 2
ReminderLimit == 2

\* redis_client.get(reminder_key), None read as zero
ReminderCount(r) == GetOr(reminder_count, r, 0)

\* the reminder rounds a shift request has received so far
RemindersSent(r) == GetOr(reminders_sent, r, 0)

remVars == <<user_type, store_sheet, temp_data, store_temp_data, requests, now, log, sheet, pc>>

\* NotificationService.send_reminder_notification: `redis_ok` tells whether the
\* read of the counter succeeds, `failed` the pharmacists whose push fails
SendReminderNotification(r, unresponded, failed, redis_ok) ==
    /\ RemindersSent(r) < MaxRounds
    /\ IF ~redis_ok
       THEN /\ last' = ReplyE("scheduler", "send_reminder", "reminder_error", {}, <<r>>)
            /\ UNCHANGED <<reminder_count, reminders_sent>>
       ELSE IF ReminderCount(r) >= ReminderLimit
       THEN /\ last' = ReplyE("scheduler", "send_reminder", "limit_reached", {}, <<r>>)
            /\ UNCHANGED <<reminder_count, reminders_sent>>
       ELSE /\ reminder_count' = Put(reminder_count, r, ReminderCount(r) + 1)
            /\ reminders_sent' = Put(reminders_sent, r, RemindersSent(r) + 1)
            /\ last' = ReplyE("scheduler", "send_reminder", "reminder_sent",
                              {Msg("reminder", r, p) : p \in unresponded \ failed}, <<r>>)
    /\ UNCHANGED remVars

\* redis_client.expire(reminder_key, 3600): an hour after the last reminder
\* round the key is gone
ReminderKeyExpires(r) ==
    /\ Has(reminder_count, r)
    /\ reminder_count' = [x \in DOMAIN reminder_count \ {r} |-> reminder_count[x]]
    /\ last' = ReplyE("redis", "expire", "key_expired", {}, <<r>>)
    /\ UNCHANGED <<reminders_sent, remVars>>

\* The reminder job runs any number of times for each shift request, and time
\* passes between the runs.
NextReminder ==
    \/ \E r \in ShiftRequestIds, unresponded \in SUBSET Pharmacists,
          failed \in SUBSET Pharmacists, redis_ok \in BOOLEAN :
            SendReminderNotification(r, unresponded, failed, redis_ok)
    \/ \E r \in ShiftRequestIds : ReminderKeyExpires(r)

SpecReminder == Init /\ [][NextReminder]_vars

\* C27: over the life of a shift request at most two reminder rounds are
\* sent, however often the reminder job is invoked.
C27_AtMostTwoReminders ==
    \A r \in ShiftRequestIds : RemindersSent(r) <= ReminderLimit

-----------------------------------------------------------------------------
(* The order of reply and registry update inside a handler                 *)

stepVars == <<user_type, store_sheet, temp_data, store_temp_data, now, reminder_count,
              reminders_sent>>

\* handle_pharmacist_confirm_accept from its first line to the reply to the store
PharmacistConfirmAcceptReply(u, rid, ph) ==
    /\ pc = Idle
    /\ IF ~Has(requests, rid)
       THEN /\ last' = ReplyE(u, "pharmacist_confirm_accept", "request_not_found",
                              {}, <<rid, ph>>)
            /\ UNCHANGED <<log, sheet, pc>>
       ELSE /\ sheet' = WriteCell(ph, requests[rid]["date"])
            /\ log' = log \cup {Msg("confirm_msg", rid, ph)}
            /\ last' = ReplyE(u, "pharmacist_confirm_accept", "accept_done",
                              {Msg("confirm_msg", rid, ph)}, <<rid, ph>>)
            /\ pc' = <<"pharmacist_confirm_accept", u, rid, ph>>
    /\ UNCHANGED <<requests, stepVars>>

\* handle_pharmacist_confirm_accept after the reply: add_confirmed and the closure loop
PharmacistConfirmAcceptReturn ==
    /\ pc # Idle
    /\ pc[1] = "pharmacist_confirm_accept"
    /\ LET rid == pc[3]
           after == AddConfirmed(requests, rid, pc[4])
           closed == ClosureRecipients(after, rid, AcceptCountNum(requests[rid]))
           sent == {Msg("closure", rid, a) : a \in closed}
       IN  /\ requests' = after
           /\ log' = log \cup sent
           /\ last' = [last EXCEPT !.pushes = @ \cup sent]
    /\ pc' = Idle
    /\ UNCHANGED <<sheet, stepVars>>

\* handle_pharmacist_apply of the pharmacist bot from its first line to the reply
PharmacistBotApplyReply(u, rid) ==
    /\ pc = Idle
    /\ last' = ReplyE(u, "pharmacist_bot_apply", "application_received", {}, <<rid>>)
    /\ pc' = <<"pharmacist_bot_apply", u, rid>>
    /\ UNCHANGED <<requests, log, sheet, stepVars>>

\* handle_pharmacist_apply of the pharmacist bot after the reply: add_applicant,
\* the application record and the notification to the store
PharmacistBotApplyReturn ==
    /\ pc # Idle
    /\ pc[1] = "pharmacist_bot_apply"
    /\ AddApplicant(BotRequests, pc[3], pc[2]) = BotRequests
    /\ UNCHANGED requests
    /\ last' = [last EXCEPT !.pushes = {StoreNotice(pc[3], pc[2], FixedStoreUserId)}]
    /\ pc' = Idle
    /\ UNCHANGED <<log, sheet, stepVars>>

\* Handlers run one after the other; the accept of the main bot and the apply
\* of the pharmacist bot are followed through their reply.
NextOrder ==
    \/ \E u \in StoreUsers, t \in ArbTexts : pc = Idle /\ ShiftRequestText(u, t)
    \/ \E u \in StoreUsers : pc = Idle /\ ConfirmationYesText(u, <<"hai">>)
    \/ \E u \in Pharmacists, r \in DOMAIN requests : pc = Idle /\ PharmacistApply(u, r)
    \/ \E u \in Pharmacists, r \in DOMAIN requests : PharmacistBotApplyReply(u, r)
    \/ PharmacistBotApplyReturn
    \/ \E u \in StoreUsers, r \in ReqIds, ph \in Pharmacists :
            PharmacistConfirmAcceptReply(u, r, ph)
    \/ PharmacistConfirmAcceptReturn

SpecOrder == Init /\ [][NextOrder]_vars

\* C28: the acknowledgment to the acting user comes after the registry update
\* it describes: a pharmacist who was told that the application is received is
\* among the applicants, and a store that was told that the confirmation is
\* complete finds the pharmacist among the confirmed.
C28_AckAfterMutation ==
    /\ (last.handler = "pharmacist_confirm_accept" /\ last.reply = "accept_done")
          => Contains(GetConfirmed(requests, last.event[1]), last.event[2])
    /\ (/\ last.handler \in {"pharmacist_apply", "pharmacist_bot_apply"}
        /\ last.reply \in {"apply_done", "application_received"})
          => Contains(GetApplicants(requests, last.event[1]), last.user)

-----------------------------------------------------------------------------
(* Composition with the buttons: the order of the steps                    *)

\* the fields of the draft in the order in which the menus ask for them
StepFields == <<"date", "start_time", "end_time", "break_time", "required_count">>

\* the first button of the end-time menu of the day band
StepEndTokens == {TimeDigits(EndTimes("end_band_day")[1])}

\* A store composes with the buttons only, tapping any button at any time,
\* and answers the summary with はい.
NextSteps ==
    \/ \E u \in StoreUsers : ShiftRequestStart(u)
    \/ \E u \in StoreUsers : DateChoice(u, "date_today")
    \/ \E u \in StoreUsers, ds \in PathStartTokens : StartTimeChoice(u, ds)
    \/ \E u \in StoreUsers, ds \in StepEndTokens : EndTimeChoice(u, ds)
    \/ \E u \in StoreUsers : BreakChoice(u, "break_60")
    \/ \E u \in StoreUsers, tok \in {"count_1", "count_2"} : CountChoice(u, tok)
    \/ \E u \in StoreUsers : ConfirmationYesText(u, <<"hai">>)

SpecSteps == Init /\ [][NextSteps]_vars

\* C29: a button stores a field only when every earlier field of the order
\* date, start_time, end_time, break_time, required_count is set, and a
\* request saved from a draft composed with the buttons has all five fields.
C29_StepsInOrder ==
    [][\A u \in StoreUsers :
          /\ \A i \in 1..Len(StepFields) :
                (~Has(Draft(u), StepFields[i]) /\ Has(Draft(u)', StepFields[i]))
                    => \A j \in 1..(i - 1) : Has(Draft(u), StepFields[j])
          /\ (HandledJust(u, "confirmation_yes")' /\ requests' # requests)
                => \A i \in 1..Len(StepFields) : Has(Draft(u), StepFields[i])]_vars

-----------------------------------------------------------------------------
(* Request ids                                                             *)

\* A store submits requests one after the other while pharmacists apply and
\* the clock advances.
NextIds ==
    \/ \E u \in StoreUsers, t \in ArbTexts : ShiftRequestText(u, t)
    \/ \E u \in StoreUsers : ConfirmationYesText(u, <<"hai">>)
    \/ \E u \in Pharmacists, r \in ReqIds : PharmacistApply(u, r)
    \/ Tick

SpecIds == Init /\ [][NextIds]_vars

\* C30: a submission stores the request under an id that no stored request
\* has, and leaves every stored request, its applicants and confirmed lists
\* included, as it was.
C30_FreshRequestId ==
    [][\A u \in StoreUsers :
          (/\ DraftComplete(Draft(u))
           /\ Draft(u)' = EmptyDict
           /\ HandledJust(u, "confirmation_yes")'
           /\ last'.reply = "request_accepted")
              => (/\ ~Has(requests, RequestId(u, now))
                  /\ \A r \in DOMAIN requests :
                        Has(requests', r) /\ requests'[r] = requests[r])]_vars

-----------------------------------------------------------------------------
(* Action tokens with a missing separator or argument                      *)

\* A token is the sequence of the fields between its ':' separators; NoId is
\* the empty string standing where a request id is expected.
NoId == <<>>

\* postback_data.split(":", 1)[1] if ":" in postback_data else ""
FirstArg(tok) == IF Len(tok) >= 2 THEN tok[2] ELSE NoId

\* handle_pharmacist_apply and handle_pharmacist_decline called with a token
PharmacistApplyPostback(u, tok) == PharmacistApply(u, FirstArg(tok))
PharmacistDeclinePostback(u, tok) == PharmacistDecline(u, FirstArg(tok))

\* handle_pharmacist_confirm_accept whose unpacking of split(":", 2) is not
\* inside the try block
PharmacistConfirmAcceptUnguarded(u, tok) ==
    IF Len(tok) < 3
    THEN /\ last' = Escaped(u, "pharmacist_confirm_accept", {}, <<>>)
         /\ UNCHANGED <<temp_data, requests, log, otherVars>>
    ELSE PharmacistConfirmAccept(u, tok[2], tok[3])

\* handle_pharmacist_confirm_accept called with a token: the unpacking of
\* split(":", 2) raises ValueError on fewer than three fields, the except block replies
PharmacistConfirmAcceptPostback(u, tok) ==
    IF Len(tok) < 3
    THEN /\ last' = ReplyE(u, "pharmacist_confirm_accept", "confirm_error", {}, <<>>)
         /\ UNCHANGED <<temp_data, requests, log, otherVars>>
    ELSE PharmacistConfirmAccept(u, tok[2], tok[3])

\* handle_pharmacist_confirm_reject called with a token
PharmacistConfirmRejectPostback(u, tok) ==
    IF Len(tok) < 3
    THEN /\ last' = ReplyE(u, "pharmacist_confirm_reject", "reject_error", {}, <<>>)
         /\ UNCHANGED <<temp_data, requests, log, otherVars>>
    ELSE PharmacistConfirmReject(u, tok[2], tok[3])

\* handle_accept_response, handle_decline_response and handle_conditional_response:
\* split(":")[1] raises IndexError on a token without separator; the shift
\* requests of ScheduleService are not those of the registry, so an accept finds none
ResponsePostback(u, tok) ==
    /\ last' = IF Len(tok) < 2
               THEN ReplyE(u, tok[1], "response_error", {}, <<>>)
               ELSE ReplyE(u, tok[1],
                           CASE tok[1] = "accept" -> "already_confirmed"
                             [] tok[1] = "decline" -> "response_thanks"
                             [] OTHER -> "ask_condition", {}, <<tok[2]>>)
    /\ UNCHANGED <<temp_data, requests, log, otherVars>>

\* the tokens of a handler: without separator, with an empty argument, with a
\* request id, and for the store's answer with a request id and a pharmacist
Tokens(head) ==
    {<<head>>, <<head, NoId>>} \cup {<<head, r>> : r \in ReqIds}
        \cup {<<head, r, ph>> : r \in ReqIds \cup {NoId}, ph \in Pharmacists}

\* A store submits requests; every action handler receives well-formed and
\* malformed tokens.
NextTokens ==
    \/ \E u \in StoreUsers : ShiftRequestText(u, <<"4", "/", "12", "AM", "1", "mei">>)
    \/ \E u \in StoreUsers : ConfirmationYesText(u, <<"hai">>)
    \/ \E u \in Pharmacists, tok \in Tokens("pharmacist_apply") :
            Len(tok) <= 2 /\ PharmacistApplyPostback(u, tok)
    \/ \E u \in Pharmacists, tok \in Tokens("pharmacist_decline") :
            Len(tok) <= 2 /\ PharmacistDeclinePostback(u, tok)
    \/ \E u \in Pharmacists, head \in {"accept", "decline", "conditional"} :
            \E tok \in Tokens(head) : Len(tok) <= 2 /\ ResponsePostback(u, tok)
    \/ \E u \in StoreUsers, tok \in Tokens("pharmacist_confirm_accept") :
            PharmacistConfirmAcceptPostback(u, tok)
    \/ \E u \in StoreUsers, tok \in Tokens("pharmacist_confirm_reject") :
            PharmacistConfirmRejectPostback(u, tok)

SpecTokens == Init /\ [][NextTokens]_vars

TokenHandlers == {"pharmacist_apply", "pharmacist_decline", "accept", "decline", "conditional",
                  "pharmacist_confirm_accept", "pharmacist_confirm_reject"}

\* the last step handled a token whose argument list came out empty
MalformedJust == last.handler \in TokenHandlers /\ last.event \in {<<>>, <<NoId>>}

-----------------------------------------------------------------------------
(* Dispatch: the counters of notify_pharmacists_of_request                 *)

\* the user_id column of a directory row: blank, a LINE user id ("U" and 32
\* characters), or some other text
ChatIds == {"blank", "line_id", "other_text"}

\* the lists of identities handed to a dispatch, each identity being its user_id
IdentityLists == UNION {[1..n -> ChatIds] : n \in 0..MaxList}

\* PharmacistNotificationService._send_notification_to_pharmacist: True without
\* sending for an id that has not the format of a LINE user id, else the
\* outcome of the push
SendNotificationToPharmacist(user_id, push_ok) ==
    IF user_id # "line_id" THEN TRUE ELSE push_ok

\* notify_pharmacists_of_request of the main bot; `failing` are the positions
\* whose push raises
NotifyPharmacistsOfRequest(ids, failing) ==
    LET failed == {i \in DOMAIN ids :
                      \/ ids[i] = "blank"
                      \/ ~SendNotificationToPharmacist(ids[i], i \notin failing)}
    IN  [total_pharmacists |-> Len(ids),
         notified_count |-> Cardinality(DOMAIN ids \ failed),
         failed_count |-> Cardinality(failed),
         failed_pharmacists |-> failed]

\* notify_pharmacists_of_request of the pharmacist bot: a blank id is passed over
BotNotifyPharmacistsOfRequest(ids, failing) ==
    LET tried == {i \in DOMAIN ids : ids[i] # "blank"}
    IN  [total_pharmacists |-> Len(ids),
         notified_count |-> Cardinality(tried \ failing),
         failed_count |-> Cardinality(tried \cap failing),
         failed_pharmacists |-> tried \cap failing]

\* a dispatch of the main bot over a list of identities
Notify(ids, failing) ==
    /\ last' = ReplyS("dispatcher", "notify_pharmacists", "notified", {}, ids,
                      NotifyPharmacistsOfRequest(ids, failing))
    /\ UNCHANGED <<temp_data, requests, log, otherVars>>

\* a dispatch of the pharmacist bot over a list of identities
BotNotify(ids, failing) ==
    /\ last' = ReplyS("dispatcher", "bot_notify_pharmacists", "notified", {}, ids,
                      BotNotifyPharmacistsOfRequest(ids, failing))
    /\ UNCHANGED <<temp_data, requests, log, otherVars>>

\* Either service dispatches to any list of identities, any push failing.
NextCounters ==
    \/ \E ids \in IdentityLists, failing \in SUBSET (1..MaxList) : Notify(ids, failing)
    \/ \E ids \in IdentityLists, failing \in SUBSET (1..MaxList) : BotNotify(ids, failing)

SpecCounters == Init /\ [][NextCounters]_vars

\* C32: after a dispatch, notified_count + failed_count is the number of
\* identities that have a usable chat id, and no identity with a blank id is
\* in the failed list.
C32_IdlessCountedNowhere ==
    last.handler \in {"notify_pharmacists", "bot_notify_pharmacists"} =>
        /\ last.shown.notified_count + last.shown.failed_count
              = Cardinality({i \in DOMAIN last.event : last.event[i] = "line_id"})
        /\ \A i \in last.shown.failed_pharmacists : last.event[i] # "blank"

-----------------------------------------------------------------------------
(* Directory query: which cells make an identity eligible                  *)

\* the day cell of a directory row: empty, white space only, a marker such as
\* 勤務不可 or ×, or another note such as the label "9:00〜18:00 メイプル薬局"
CellTexts == {"blank", "spaces", "kinmu_fuka", "label"}

\* schedule.strip() == ""
StripsToEmpty(cell) == cell \in {"blank", "spaces"}

\* the filter of get_available_pharmacists in app/services/google_sheets_service.py
IsBlankCell(cell) ==
    \/ StripsToEmpty(cell)
    \/ (cell # "kinmu_fuka" /\ StripsToEmpty(cell))

\* GoogleSheetsService._is_available_for_schedule of shared/services: the keyword
\* loop and the last line both return True
IsAvailableForSchedule(cell, time_slot) ==
    IF StripsToEmpty(cell) THEN TRUE
    ELSE IF cell = "kinmu_fuka" THEN FALSE
    ELSE TRUE

\* get_available_pharmacists of either service over the day cells of the rows
GetAvailablePharmacists(cells, time_slot, shared) ==
    /\ last' = ReplyS("directory",
                      IF shared THEN "shared_get_available" ELSE "get_available",
                      "listed", {}, cells,
                      {i \in DOMAIN cells :
                          IF shared THEN IsAvailableForSchedule(cells[i], time_slot)
                          ELSE IsBlankCell(cells[i])})
    /\ UNCHANGED <<temp_data, requests, log, otherVars>>

\* Either directory service is asked for any column of day cells.
NextQuery ==
    \E cells \in UNION {[1..n -> CellTexts] : n \in 1..MaxList},
       time_slot \in {"time_morning", "time_full_day"}, shared \in BOOLEAN :
        GetAvailablePharmacists(cells, time_slot, shared)

SpecQuery == Init /\ [][NextQuery]_vars

\* C33: a directory query returns an identity exactly when its cell for the
\* date is empty; a marker and any other note both exclude it.
C33_EligibleIffBlank ==
    last.handler \in {"get_available", "shared_get_available"} =>
        \A i \in DOMAIN last.event :
            (i \in last.shown) <=> (last.event[i] \in {"blank", "spaces"})

-----------------------------------------------------------------------------
(* Who writes a pharmacist's cell of the schedule sheet                    *)

\* C34: the cell of a pharmacist for the date of a request is written only by
\* the store's accept of that pharmacist; an apply alone never writes it.
C34_CellWrittenOnlyByAccept ==
    [][\A c \in sheet' \ sheet :
          /\ last'.handler = "pharmacist_confirm_accept"
          /\ last'.event[2] = c[1]]_vars

-----------------------------------------------------------------------------
(* One registry for the store's handlers and the pharmacists' handlers     *)

\* C35: the request saved by the store's submission is the request the
\* pharmacist-side apply handler updates: after an apply to a saved request
\* through the pharmacist bot, the registry read by the store's accept has the
\* pharmacist among the applicants of that request.
C35_ApplyReachesStoreRegistry ==
    (/\ last.handler = "pharmacist_bot_apply"
     /\ Has(requests, last.event[1]))
        => Contains(GetApplicants(requests, last.event[1]), last.user)

-----------------------------------------------------------------------------
(* The acknowledgment of an application                                    *)

\* C36: a pharmacist is told that the application was received only if, when
\* the apply handler has finished, the pharmacist is among the applicants of
\* the request; an apply that names a request the registry does not hold is not
\* acknowledged as received.
C36_AckedOnlyIfApplicant ==
    \A u \in Users, r \in ReqIds :
        (/\ last.handler \in {"pharmacist_apply", "pharmacist_bot_apply"}
         /\ last.event = <<r>>
         /\ ApplyAcked(last, u, r))
            => Contains(GetApplicants(requests, r), u)

-----------------------------------------------------------------------------
(* The store's accept when a delivery fails                                *)

\* handle_pharmacist_confirm_accept with the outcome of its deliveries: push_ok
\* is the push of the confirmation to the pharmacist (send_message swallows a
\* failure and returns False), reply_ok the reply to the store that follows it
\* (a failure raises and is caught by the handler's except block, which skips
\* add_confirmed and the closure loop), error_reply_ok the reply inside that
\* except block
PharmacistConfirmAcceptWith(u, rid, ph, push_ok, reply_ok, error_reply_ok) ==
    /\ IF ~Has(requests, rid)
       THEN /\ last' = ReplyE(u, "pharmacist_confirm_accept", "request_not_found",
                              {}, <<rid, ph>>)
            /\ UNCHANGED <<requests, log, sheet>>
       ELSE LET confirm == IF push_ok THEN {Msg("confirm_msg", rid, ph)} ELSE {}
                after == AddConfirmed(requests, rid, ph)
                closed == ClosureRecipients(after, rid, AcceptCountNum(requests[rid]))
                sent == confirm \cup {Msg("closure", rid, a) : a \in closed}
            IN  /\ sheet' = WriteCell(ph, requests[rid]["date"])
                /\ IF reply_ok
                   THEN /\ requests' = after
                        /\ log' = log \cup sent
                        /\ last' = ReplyE(u, "pharmacist_confirm_accept", "accept_done",
                                          sent, <<rid, ph>>)
                   ELSE /\ UNCHANGED requests
                        /\ log' = log \cup confirm
                        /\ last' = IF error_reply_ok
                                     THEN ReplyE(u, "pharmacist_confirm_accept",
                                                 "confirm_error", confirm, <<rid, ph>>)
                                     ELSE Escaped(u, "pharmacist_confirm_accept",
                                                  confirm, <<rid, ph>>)
    /\ UNCHANGED <<temp_data, roleVars>>

\* A store posts a request, pharmacists apply, the store accepts; a push or a
\* reply of the accept may fail.
NextConfirm ==
    \/ \E u \in StoreUsers : ShiftRequestText(u, <<"4", "/", "12", "AM", "1", "mei">>)
    \/ \E u \in StoreUsers : ConfirmationYesText(u, <<"hai">>)
    \/ \E u \in Pharmacists, r \in ReqIds : PharmacistApply(u, r)
    \/ \E u \in StoreUsers, r \in ReqIds, ph \in Pharmacists :
            \E push_ok, reply_ok, error_reply_ok \in BOOLEAN :
                PharmacistConfirmAcceptWith(u, r, ph, push_ok, reply_ok, error_reply_ok)

SpecConfirm == Init /\ [][NextConfirm]_vars

\* C37: when the store's accept of pharmacist ph for request r has finished, ph
\* has been sent the "shift confirmed" message if and only if ph is among the
\* confirmed of r, also when the reply to the store failed in between.
C37_ConfirmedIffTold ==
    \A r \in ReqIds, ph \in Pharmacists :
        (/\ last.handler = "pharmacist_confirm_accept"
         /\ last.event = <<r, ph>>)
            => (Msg("confirm_msg", r, ph) \in last.pushes
                    <=> Contains(GetConfirmed(requests, r), ph))

-----------------------------------------------------------------------------
(* Closure messages over repeated accepts                                  *)

\* C38: over any sequence of store accepts (a button tapped twice, an accept
\* after the request is filled), an applicant who is not confirmed receives the
\* closure message of a request at most once: an accept never pushes a closure
\* message that an earlier accept has already pushed.
C38_ClosureOnce ==
    [][(/\ last'.handler = "pharmacist_confirm_accept"
        /\ last.handler = "pharmacist_confirm_accept" => last'.event # last.event)
          => \A m \in last'.pushes : m.kind = "closure" => m \notin log]_vars

-----------------------------------------------------------------------------
(* The custom-date flag and the date of the draft                          *)

\* C39: whenever a step stores a date in the draft, by a date button, by a
\* custom date text or by a free-text request, the custom_date_waiting flag is
\* clear after the step, so that no later text is taken for a date.
C39_DateStoredClearsFlag ==
    [][\A u \in StoreUsers :
          (/\ Has(Draft(u)', "date")
           /\ ~Has(Draft(u), "date") \/ Draft(u)["date"] # Draft(u)'["date"])
              => ~CustomDateWaiting(u)']_vars

-----------------------------------------------------------------------------
(* The time slot of a saved request                                        *)

\* C40: the time_slot of the request saved by a submission is the
\* classification of the start_time the draft holds at that moment, also when
\* the start time was chosen again after the head count or a free-text request
\* arrived after the steps.
C40_SlotClassifiesStartTime ==
    [][\A u \in StoreUsers :
          (/\ DraftComplete(Draft(u))
           /\ Has(Draft(u), "start_time")
           /\ Draft(u)' = EmptyDict
           /\ SubmittedJust(u)')
              => requests'[RequestId(u, now)]["time_slot"]
                    = TimeSlotOf(Draft(u)["start_time"])]_vars

=============================================================================
